---- MODULE Spec2Model ----
(***************************************************************************)
(* Model of the wagiri pin-throw simulator: the zustand game store         *)
(* (src/src/store.ts), its physics helpers (src/src/physics.ts), the       *)
(* Mulberry32 generator and the animation callback of GameCanvas.          *)
(*                                                                         *)
(* Numbers.  The program computes with IEEE doubles.  The model computes   *)
(* with integers in fixed point:                                           *)
(*   - lengths, heights and velocities in tenths of a unit (Scale = 10),   *)
(*   - coefficients and probabilities in thousandths (Milli = 1000),       *)
(*   - every product or quotient is truncated toward zero.                 *)
(* The 32-bit words of Mulberry32 are kept exactly, as two 16-bit limbs.   *)
(***************************************************************************)
EXTENDS Integers, Sequences, FiniteSets, TLC

VARIABLES
  config,           \* GameStore.config
  players,          \* GameStore.players
  pins,             \* GameStore.pins, in insertion order
  currentPlayerId,  \* GameStore.currentPlayerId
  phase,            \* GameStore.phase
  eventLog,         \* GameStore.eventLog
  runtime,          \* GameStore.runtime
  rng,              \* GameStore.rng: the internal state of the Mulberry32 object
  idCounter,        \* ids handed out so far: [pin] by generatePinId, [event] by generateEventId
  hung,             \* TRUE once a call has entered a loop it never leaves
  last,             \* the last call that returned: [op, ret]
  logAtThrow,       \* length of eventLog when the throw in progress started
  edits             \* number of configuration commands issued so far

vars == <<config, players, pins, currentPlayerId, phase, eventLog, runtime, rng,
          idCounter, hung, last, logAtThrow, edits>>

storeVars == <<config, players, pins, currentPlayerId, phase, eventLog, runtime, rng>>

-----------------------------------------------------------------------------
(* Bounds of the exploration.                                              *)

\* Throws started in one run.
MaxThrows == 3

\* Configuration commands issued in one run.
MaxEdits == 1

-----------------------------------------------------------------------------
(* Fixed-point arithmetic.                                                 *)

Scale == 10
Milli == 1000

Abs(a) == IF a < 0 THEN -a ELSE a

Min(a, b) == IF a < b THEN a ELSE b

Max(a, b) == IF a > b THEN a ELSE b

\* Quotient truncated toward zero (b > 0).
TDiv(a, b) == IF a >= 0 THEN a \div b ELSE -((-a) \div b)

\* v * (c / 1000)
MulMilli(v, c) == TDiv(v * c, Milli)

RECURSIVE SqrtSearch(_, _, _)
SqrtSearch(n, lo, hi) ==
  IF lo >= hi THEN lo
  ELSE LET mid == (lo + hi + 1) \div 2
       IN IF mid * mid <= n THEN SqrtSearch(n, mid, hi) ELSE SqrtSearch(n, lo, mid - 1)

\* Math.sqrt, rounded down (n < 2^30).
ISqrt(n) == SqrtSearch(n, 0, 32767)

-----------------------------------------------------------------------------
(* Mulberry32 (class Mulberry32).  A 32-bit word is <<hi, lo>> with        *)
(* 0 <= hi, lo < 2^16.  The generator's state is a JavaScript number, which *)
(* "+=" never wraps: it is [top, hi, lo] with hi, lo < 2^16 and stands for  *)
(* top * 2^32 + hi * 2^16 + lo, rounded as a double rounds it.              *)

Two16 == 65536

RECURSIVE Xor16(_, _)
Xor16(a, b) ==
  IF a = 0 THEN b
  ELSE IF b = 0 THEN a
  ELSE ((a + b) % 2) + 2 * Xor16(a \div 2, b \div 2)

RECURSIVE Or16(_, _)
Or16(a, b) ==
  IF a = 0 THEN b
  ELSE IF b = 0 THEN a
  ELSE (IF a % 2 = 1 \/ b % 2 = 1 THEN 1 ELSE 0) + 2 * Or16(a \div 2, b \div 2)

Pow2(k) == 2 ^ k

\* a ^ b on 32-bit words
Xor32(a, b) == <<Xor16(a[1], b[1]), Xor16(a[2], b[2])>>

\* a | c for a constant c < 2^16
OrLow(a, c) == <<a[1], Or16(a[2], c)>>

\* a >>> k, 0 < k < 16
ShiftR(a, k) ==
  <<a[1] \div Pow2(k), (a[2] \div Pow2(k)) + (a[1] % Pow2(k)) * Pow2(16 - k)>>

\* (a + b) mod 2^32
Add32(a, b) ==
  LET lo == a[2] + b[2]
  IN <<(a[1] + b[1] + lo \div Two16) % Two16, lo % Two16>>

\* (a * b) mod 2^16 for 16-bit a, b, without leaving 31 bits
MulLo16(a, b) == ((a % 256) * b + (((a \div 256) * b) % 256) * 256) % Two16

\* the word hiSum * 2^16 + lowSum, plus cross * 2^16, mod 2^32
Carry32(hiSum, lowSum, cross) ==
  <<(hiSum + lowSum \div Two16 + cross) % Two16, lowSum % Two16>>

\* the product a * b from its partial products p0 (low byte of a's low limb times b's
\* low limb) and p1 (high byte of a's low limb times b's low limb)
ImulParts(a, b, p0, p1) ==
  Carry32((p0 \div Two16) + (p1 \div 256),
          (p0 % Two16) + (p1 % 256) * 256,
          MulLo16(a[1], b[2]) + MulLo16(a[2], b[1]))

\* Math.imul(a, b): the low 32 bits of the product
Imul(a, b) == ImulParts(a, b, (a[2] % 256) * b[2], (a[2] \div 256) * b[2])

\* The field "state" is a double holding the integer top * 2^32 + hi * 2^16 + lo,
\* with hi and lo 16-bit limbs.
\* new Mulberry32(seed): "seed >>> 0"
ToUint32(n) == [top |-> 0, hi |-> (n \div Two16) % Two16, lo |-> n % Two16]

\* 2^21: a double holds every integer below 2^53 = 2^21 * 2^32 exactly
ExactBelow == 2097152

\* the limbs of a state whose low limb was left unreduced
Normalize(top, hi, lo) ==
  [ top |-> top + (hi + lo \div Two16) \div Two16,
    hi |-> (hi + lo \div Two16) % Two16,
    lo |-> lo % Two16 ]

\* the double nearest to the integer v, for v < 2^54: from 2^53 on only the even
\* integers are doubles, and an odd one goes to the neighbour with the even mantissa
RoundToDouble(v) ==
  IF v.top < ExactBelow \/ v.lo % 2 = 0 THEN v
  ELSE IF v.lo % 4 = 1 THEN [v EXCEPT !.lo = @ - 1]
  ELSE Normalize(v.top, v.hi, v.lo + 1)

\* "this.state += 0x6d2b79f5": 0x6d2b = 27947, 0x79f5 = 31221; the sum is not
\* reduced to 32 bits
AdvanceState(s) == RoundToDouble(Normalize(s.top, s.hi + 27947, s.lo + 31221))

\* "t = Math.imul(t ^ (t >>> 15), t | 1)"
Mix1(t) == Imul(Xor32(t, ShiftR(t, 15)), OrLow(t, 1))

\* "t ^= t + Math.imul(t ^ (t >>> 7), t | 61)"
Mix2(t) == Xor32(t, Add32(t, Imul(Xor32(t, ShiftR(t, 7)), OrLow(t, 61))))

\* "(t ^ (t >>> 14)) >>> 0"
Mix3(t) == Xor32(t, ShiftR(t, 14))

\* the result of next() from the advanced state s1; the operators read s1 mod 2^32
NextFrom(s1) == [state |-> s1, value |-> Mix3(Mix2(Mix1(<<s1.hi, s1.lo>>)))]

\* next(): the new state and the 32-bit numerator u of the result u / 2^32
Mulberry32Next(s) == NextFrom(AdvanceState(s))

\* u / 2^32 < p / 1000
LessThanProb(u, p) ==
  u[1] * Milli + (u[2] * Milli) \div Two16 < p * Two16

\* a chance with the comparison turned round
ChanceOfInverted(n, p) == [state |-> n.state, hit |-> ~LessThanProb(n.value, p)]

\* chance(probability): "this.next() < probability"
ChanceOf(n, p) == [state |-> n.state, hit |-> LessThanProb(n.value, p)]

Chance(s, p) == ChanceOf(Mulberry32Next(s), p)

\* getState(): "return this.state"
getState(s) == s

\* setState(state): "this.state = state >>> 0"
setState(state) == [top |-> 0, hi |-> state.hi, lo |-> state.lo]


-----------------------------------------------------------------------------
(* Types and defaults (types.ts).  Lengths and speeds in tenths, factors   *)
(* and probabilities in thousandths, angles in whole degrees.              *)

NoPin == 0

\* DEFAULT_CONFIG
DEFAULT_CONFIG ==
  [ ringCount |-> 3,
    rings |-> << [innerRadius |-> 0, outerRadius |-> 500, points |-> 3],
                 [innerRadius |-> 500, outerRadius |-> 1000, points |-> 2],
                 [innerRadius |-> 1000, outerRadius |-> 1500, points |-> 1] >>,
    outsideScore |-> 0,
    pinRadius |-> 100,
    pinHeight |-> 300,
    friction |-> 980,
    stopThreshold |-> 5,
    baseStandProb |-> 500,
    baseKnockProb |-> 300,
    impactSpeedFactor |-> 50,
    ringBonusEnabled |-> TRUE,
    collisionPenaltyEnabled |-> TRUE,
    maxPinsOnBoard |-> 20,
    seed |-> 12345,
    canvasSize |-> 5000,
    throwPower |-> 500,
    throwAngle |-> 0,
    throwPitch |-> 15,
    gravity |-> 5,
    groundRestitution |-> 300,
    collisionZThreshold |-> 250 ]

\* DEFAULT_PLAYERS (name and colour are display constants and are left out)
DEFAULT_PLAYERS == << [id |-> 1, score |-> 0], [id |-> 2, score |-> 0] >>

\* createInitialRuntime(); knockedIds keeps the insertion order of the JavaScript Set
createInitialRuntime ==
  [ thrownPinId |-> NoPin,
    collisionCount |-> 0,
    knockedIds |-> <<>>,
    collidedWith |-> {},
    impactSpeeds |-> <<>> ]

-----------------------------------------------------------------------------
(* physics.ts                                                              *)

\* MAX_SPEED = 20 units per frame
MAX_SPEED == 20 * Scale

\* RESTITUTION = 0.5
RESTITUTION == 500

\* Math.sin of an angle in degrees, in thousandths, for the angles the model aims at
RECURSIVE SinDeg(_)
SinDeg(d) ==
  IF d < 0 THEN -SinDeg(-d)
  ELSE IF d > 90 THEN SinDeg(180 - d)
  ELSE CASE d = 0 -> 0
         [] d = 15 -> 259
         [] d = 30 -> 500
         [] d = 45 -> 707
         [] d = 60 -> 866
         [] d = 75 -> 966
         [] d = 90 -> 1000

\* Math.cos of an angle in degrees, in thousandths
CosDeg(d) == SinDeg(90 - d)

\* degToRad: "0 degrees = up"; the angle stays in degrees
degToRad(degrees) == degrees - 90

calculateThrowVelocity(power, angleDegrees, pitchDegrees) ==
  LET yaw == degToRad(angleDegrees)
      spd == MulMilli(MAX_SPEED, power)
      horizontalSpeed == MulMilli(spd, CosDeg(pitchDegrees))
      verticalSpeed == MulMilli(spd, SinDeg(pitchDegrees))
  IN [ vx |-> MulMilli(horizontalSpeed, CosDeg(yaw)),
       vy |-> MulMilli(horizontalSpeed, SinDeg(yaw)),
       vz |-> verticalSpeed ]

getThrowStartPosition(canvasSize) ==
  [x |-> canvasSize \div 2, y |-> canvasSize - 30 * Scale]

\* distance(x1, y1, x2, y2) squared; comparisons of distances are made on squares
DistSq(x1, y1, x2, y2) == (x2 - x1) * (x2 - x1) + (y2 - y1) * (y2 - y1)

\* speed(vx, vy) squared
SpeedSq(vx, vy) == vx * vx + vy * vy

\* speed(vx, vy)
speed(vx, vy) == ISqrt(SpeedSq(vx, vy))

\* "d < r" and "d >= r" for a distance d >= 0 known by its square
DistLess(dsq, r) == r > 0 /\ dsq < r * r

DistGreater(dsq, r) == r < 0 \/ dsq > r * r

\* a collision test that looks at the height of the first pin only
checkCollisionOneSided(pin1, pin2, pinRadius, pinHeight, zThreshold) ==
  /\ pin1.z <= pinHeight + zThreshold
  /\ ~(pin2.state = "standing" /\ pin1.z > pinHeight)
  /\ DistLess(DistSq(pin1.x, pin1.y, pin2.x, pin2.y), 2 * pinRadius)

checkCollision(pin1, pin2, pinRadius, pinHeight, zThreshold) ==
  LET pin1InRange == pin1.z <= pinHeight + zThreshold
      pin2InRange == pin2.z <= pinHeight + zThreshold
  IN IF ~pin1InRange \/ ~pin2InRange THEN FALSE
     ELSE IF pin2.state = "standing" /\ pin1.z > pinHeight THEN FALSE
     ELSE IF pin1.state = "standing" /\ pin2.z > pinHeight THEN FALSE
     ELSE DistLess(DistSq(pin1.x, pin1.y, pin2.x, pin2.y), 2 * pinRadius)

\* impulse = dvn * (1 + RESTITUTION) / 2 with dvn = (dv . d) / dist, and the
\* components impulse * nx = impulse * dx / dist; dvnDist is dvn * dist, exact
applyCollisionResponse(movingPin, staticPin) ==
  LET dx == staticPin.x - movingPin.x
      dy == staticPin.y - movingPin.y
      distSq == dx * dx + dy * dy
      dvx == movingPin.vx - staticPin.vx
      dvy == movingPin.vy - staticPin.vy
      dvnDist == dvx * dx + dvy * dy
      impulseDist == TDiv(dvnDist * (Milli + RESTITUTION), 2 * Milli)
      ix == TDiv(impulseDist * dx, distSq)
      iy == TDiv(impulseDist * dy, distSq)
      vzTransfer == MulMilli(movingPin.vz, 300)
  IN IF distSq = 0
     THEN [ mvx |-> movingPin.vx, mvy |-> movingPin.vy, mvz |-> movingPin.vz,
            svx |-> 0, svy |-> 0, svz |-> 0 ]
     ELSE IF dvnDist < 0
     THEN [ mvx |-> movingPin.vx, mvy |-> movingPin.vy, mvz |-> movingPin.vz,
            svx |-> staticPin.vx, svy |-> staticPin.vy, svz |-> staticPin.vz ]
     ELSE [ mvx |-> movingPin.vx - ix,
            mvy |-> movingPin.vy - iy,
            mvz |-> MulMilli(movingPin.vz, 700),
            svx |-> staticPin.vx + ix,
            svy |-> staticPin.vy + iy,
            svz |-> staticPin.vz + vzTransfer ]

applyGravity(vz, gravity) == vz - gravity

applyGroundBounce(z, vz, restitution) ==
  IF z <= 0 /\ vz < 0
  THEN LET newVz == MulMilli(-vz, restitution)
       IN IF Abs(newVz) < Scale \div 2
          THEN [z |-> 0, vz |-> 0, bounced |-> TRUE]
          ELSE [z |-> 0, vz |-> newVz, bounced |-> TRUE]
  ELSE [z |-> z, vz |-> vz, bounced |-> FALSE]

\* z <= 0.1 and |vz| < 0.5
isGrounded(z, vz) == z <= Scale \div 10 /\ Abs(vz) < Scale \div 2

RECURSIVE FindRingFrom(_, _, _)
FindRingFrom(i, dsq, cfg) ==
  IF i > Len(cfg.rings)
  THEN [ringIndex |-> -1, points |-> cfg.outsideScore]
  ELSE LET ring == cfg.rings[i]
       IN IF ~DistLess(dsq, ring.innerRadius) /\ DistLess(dsq, ring.outerRadius)
          THEN [ringIndex |-> i - 1, points |-> ring.points]
          ELSE FindRingFrom(i + 1, dsq, cfg)

\* a lookup that prefers the last matching ring
findRingLastMatch(x, y, cfg) ==
  LET n == Len(cfg.rings)
      back == [cfg EXCEPT !.rings = [i \in 1..n |-> cfg.rings[n + 1 - i]]]
      r == FindRingFrom(1, DistSq(x, y, cfg.canvasSize \div 2, cfg.canvasSize \div 2), back)
  IN IF r.ringIndex = -1 THEN r ELSE [r EXCEPT !.ringIndex = n - 1 - r.ringIndex]

\* ringIndex is 0-based as in the program
findRing(x, y, cfg) ==
  FindRingFrom(1, DistSq(x, y, cfg.canvasSize \div 2, cfg.canvasSize \div 2), cfg)

RECURSIVE MaxOuter(_, _)
MaxOuter(rings, i) ==
  IF i = Len(rings) THEN rings[i].outerRadius
  ELSE Max(rings[i].outerRadius, MaxOuter(rings, i + 1))

getMaxRingRadius(cfg) == IF Len(cfg.rings) = 0 THEN 0 ELSE MaxOuter(cfg.rings, 1)

\* the arena boundary: "getMaxRingRadius(config) + 50"
BoundaryRadius(cfg) == getMaxRingRadius(cfg) + 50 * Scale

isOutOfBounds(pin, cfg) ==
  DistGreater(DistSq(pin.x, pin.y, cfg.canvasSize \div 2, cfg.canvasSize \div 2),
              BoundaryRadius(cfg))

\* Math.sqrt rounded up, so that the unit normal never exceeds length 1
SqrtUp(n) == LET r == ISqrt(n) IN IF r * r = n THEN r ELSE r + 1

\* the clamped position, and the velocity "(v - 2 * dot * n) * 0.5", for the outward
\* unit normal (nx, ny) in thousandths and dot = v . n
ReflectWith(pin, cfg, maxRadius, nx, ny, dot) ==
  [ x |-> cfg.canvasSize \div 2 + TDiv(nx * maxRadius, Milli),
    y |-> cfg.canvasSize \div 2 + TDiv(ny * maxRadius, Milli),
    vx |-> TDiv(pin.vx - TDiv(2 * dot * nx, Milli), 2),
    vy |-> TDiv(pin.vy - TDiv(2 * dot * ny, Milli), 2) ]

ReflectAlong(pin, cfg, maxRadius, nx, ny) ==
  ReflectWith(pin, cfg, maxRadius, nx, ny, TDiv(pin.vx * nx + pin.vy * ny, Milli))

\* the reflection of a pin at offset (dx, dy) and distance dist from the centre
ReflectAt(pin, cfg, dx, dy, dist) ==
  ReflectAlong(pin, cfg, BoundaryRadius(cfg), TDiv(dx * Milli, dist), TDiv(dy * Milli, dist))

applyBoundaryReflection(pin, cfg) ==
  LET dx == pin.x - cfg.canvasSize \div 2
      dy == pin.y - cfg.canvasSize \div 2
  IN IF ~DistGreater(dx * dx + dy * dy, BoundaryRadius(cfg))
     THEN [x |-> pin.x, y |-> pin.y, vx |-> pin.vx, vy |-> pin.vy]
     ELSE ReflectAt(pin, cfg, dx, dy, SqrtUp(dx * dx + dy * dy))

Clamp01(p) == Max(0, Min(Milli, p))

\* a stand probability that is not clamped
calculateStandProbabilityUnclamped(cfg, ringIndex, collisionCount) ==
  cfg.baseStandProb
    + (IF cfg.ringBonusEnabled /\ ringIndex >= 0 THEN (Len(cfg.rings) - ringIndex) * 100 ELSE 0)
    - (IF cfg.collisionPenaltyEnabled THEN 150 * collisionCount ELSE 0)

calculateStandProbability(cfg, ringIndex, collisionCount) ==
  LET bonus == IF cfg.ringBonusEnabled /\ ringIndex >= 0
               THEN (Len(cfg.rings) - ringIndex) * 100 ELSE 0
      penalty == IF cfg.collisionPenaltyEnabled THEN 150 * collisionCount ELSE 0
  IN Clamp01(cfg.baseStandProb + bonus - penalty)

calculateKnockProbability(cfg, impactSpeed) ==
  Clamp01(cfg.baseKnockProb + TDiv(cfg.impactSpeedFactor * impactSpeed, Scale))


-----------------------------------------------------------------------------
(* store.ts: the store as a record, and each command as a function on it.  *)

Store ==
  [ config |-> config, players |-> players, pins |-> pins,
    currentPlayerId |-> currentPlayerId, phase |-> phase, eventLog |-> eventLog,
    runtime |-> runtime, rng |-> rng ]

\* pins.find((p) => p.id === id): the index of the first such pin, 0 if none
RECURSIVE FindPinFrom(_, _, _)
FindPinFrom(ps, id, i) ==
  IF i > Len(ps) THEN 0
  ELSE IF ps[i].id = id THEN i
  ELSE FindPinFrom(ps, id, i + 1)

FindPin(ps, id) == FindPinFrom(ps, id, 1)

\* a test that looks at the oldest pin only
OldestPinMoving(ps) == Len(ps) > 0 /\ ps[1].isMoving

\* pins.some((p) => p.isMoving)
AnyPinMoving(ps) == \E i \in 1..Len(ps) : ps[i].isMoving

\* updateConfig(partial): { ...state.config, ...partial }
updateConfigOn(s, partial) == [s EXCEPT !.config = partial @@ s.config]

\* updateRing(index, ringUpdate); index is 0-based
updateRingOn(s, index, ringUpdate) ==
  LET rings == s.config.rings
      newRings == IF index >= 0 /\ index < Len(rings)
                  THEN [rings EXCEPT ![index + 1] = ringUpdate @@ rings[index + 1]]
                  ELSE rings
  IN [s EXCEPT !.config = [s.config EXCEPT !.rings = newRings,
                                           !.ringCount = Len(newRings)]]

\* addRing()
addRingOn(s) ==
  LET rings == s.config.rings
      newRing == IF Len(rings) > 0
                 THEN [ innerRadius |-> rings[Len(rings)].outerRadius,
                        outerRadius |-> rings[Len(rings)].outerRadius + 50 * Scale,
                        points |-> 1 ]
                 ELSE [innerRadius |-> 0, outerRadius |-> 50 * Scale, points |-> 1]
      newRings == Append(rings, newRing)
  IN [s EXCEPT !.config = [s.config EXCEPT !.rings = newRings,
                                           !.ringCount = Len(newRings)]]

\* rings.filter((_, i) => i !== index)
RemoveAt(rings, index) ==
  IF index >= 0 /\ index < Len(rings)
  THEN SubSeq(rings, 1, index) \o SubSeq(rings, index + 2, Len(rings))
  ELSE rings

\* removeRing(index)
removeRingOn(s, index) ==
  IF Len(s.config.rings) <= 1 THEN s
  ELSE LET newRings == RemoveAt(s.config.rings, index)
       IN [s EXCEPT !.config = [s.config EXCEPT !.rings = newRings,
                                                !.ringCount = Len(newRings)]]

\* setThrowParams(angle, power)
setThrowParamsOn(s, angle, power) ==
  [s EXCEPT !.config = [s.config EXCEPT !.throwAngle = angle, !.throwPower = power]]

\* a throwPin without its phase guard
ThrowAcceptedInAnyPhase(s) == s.phase \in {"idle", "simulating", "resolving", "turnEnd"}

\* throwPin: "if (phase !== 'idle') return"
ThrowAccepted(s) == s.phase = "idle"

\* throwPin: the pin created by the throw
NewPin(s, id) ==
  LET start == getThrowStartPosition(s.config.canvasSize)
      v == calculateThrowVelocity(s.config.throwPower, s.config.throwAngle,
                                  s.config.throwPitch)
  IN [ id |-> id, playerId |-> s.currentPlayerId,
       x |-> start.x, y |-> start.y, z |-> 0,
       vx |-> v.vx, vy |-> v.vy, vz |-> v.vz,
       state |-> "standing", isMoving |-> TRUE ]

\* throwPin: "while (newPins.length >= config.maxPinsOnBoard) newPins.shift()" leaves
\* the loop only if the capacity is positive
EvictionTerminates(s) == s.config.maxPinsOnBoard > 0

\* an eviction that drops the newest pin ("pop" for "shift")
RECURSIVE EvictNewest(_, _)
EvictNewest(ps, maxPins) ==
  IF Len(ps) >= maxPins /\ Len(ps) > 0
  THEN EvictNewest(SubSeq(ps, 1, Len(ps) - 1), maxPins)
  ELSE ps

RECURSIVE Evict(_, _)
Evict(ps, maxPins) ==
  IF Len(ps) >= maxPins /\ Len(ps) > 0 THEN Evict(Tail(ps), maxPins) ELSE ps

\* a throw that resets the runtime but does not tag the new pin
ThrowRuntimeUntagged(id) == createInitialRuntime

\* throwPin: the runtime installed by the throw
ThrowRuntime(id) == [createInitialRuntime EXCEPT !.thrownPinId = id]

\* throwPin(), for a call that returns
throwPinOn(s, id) ==
  IF ~ThrowAccepted(s) THEN s
  ELSE [s EXCEPT !.pins = Append(Evict(s.pins, s.config.maxPinsOnBoard), NewPin(s, id)),
                 !.phase = "simulating",
                 !.runtime = ThrowRuntime(id)]


-----------------------------------------------------------------------------
(* simulationStep.  The loops update the cloned pins in place; st is the   *)
(* loop state [pins, runtime, rng].                                        *)

NoPlayer == 0

\* new Set(set).add(id) on the insertion-ordered knockedIds
SeqAdd(q, id) == IF \E k \in 1..Len(q) : q[k] = id THEN q ELSE Append(q, id)

\* a chain-reaction mark given to every struck pin
RemarkedWhenStruck(otherPin, cfg) == TRUE

\* "speed(otherPin.vx, otherPin.vy) > config.stopThreshold"
RemarkedMoving(otherPin, cfg) ==
  DistGreater(SpeedSq(otherPin.vx, otherPin.vy), cfg.stopThreshold)

\* a knock judgment that does not look at the owner
KnockJudgedForAll(otherPin, thrownOwner) == TRUE

\* "if (otherPin.playerId !== thrownPin?.playerId)"
KnockJudged(otherPin, thrownOwner) == otherPin.playerId # thrownOwner

\* "if (speed(...) > config.stopThreshold) otherPin.isMoving = true"
Remark(otherPin, cfg) ==
  IF RemarkedMoving(otherPin, cfg) THEN [otherPin EXCEPT !.isMoving = TRUE] ELSE otherPin

\* the velocities after the response, and the chain-reaction mark on the other pin
Respond(st, i, j, cfg, response) ==
  [st EXCEPT !.pins[i] = [@ EXCEPT !.vx = response.mvx, !.vy = response.mvy,
                                   !.vz = response.mvz],
             !.pins[j] = Remark([@ EXCEPT !.vx = response.svx, !.vy = response.svy,
                                          !.vz = response.svz], cfg)]

\* a knock that fells the pin without recording its impact speed
KnockRollUnrecorded(st, j, roll, impactSpeed) ==
  IF roll.hit /\ st.pins[j].state = "standing"
  THEN [st EXCEPT !.pins[j].state = "fallen",
                  !.runtime.knockedIds = SeqAdd(@, st.pins[j].id),
                  !.rng = roll.state]
  ELSE [st EXCEPT !.rng = roll.state]

\* a knock that fells the struck pin whatever its state
KnockRollAnyState(st, j, roll, impactSpeed) ==
  IF roll.hit
  THEN [st EXCEPT !.pins[j].state = "fallen",
                  !.runtime.knockedIds = SeqAdd(@, st.pins[j].id),
                  !.runtime.impactSpeeds = (st.pins[j].id :> impactSpeed) @@ @,
                  !.rng = roll.state]
  ELSE [st EXCEPT !.rng = roll.state]

\* "if (rng.chance(knockProb) && otherPin.state === 'standing')" after the roll
KnockRoll(st, j, roll, impactSpeed) ==
  IF roll.hit /\ st.pins[j].state = "standing"
  THEN [st EXCEPT !.pins[j].state = "fallen",
                  !.runtime.knockedIds = SeqAdd(@, st.pins[j].id),
                  !.runtime.impactSpeeds = (st.pins[j].id :> impactSpeed) @@ @,
                  !.rng = roll.state]
  ELSE [st EXCEPT !.rng = roll.state]

\* "if (!newRuntime.collidedWith.has(otherPin.id))": the first contact with pin j
FirstContact(st, j, cfg, thrownOwner, impactSpeed) ==
  IF KnockJudged(st.pins[j], thrownOwner)
  THEN KnockRoll([st EXCEPT !.runtime.collidedWith = @ \cup {st.pins[j].id}], j,
                 Chance(st.rng, calculateKnockProbability(cfg, impactSpeed)),
                 impactSpeed)
  ELSE [st EXCEPT !.runtime.collidedWith = @ \cup {st.pins[j].id}]

\* "newRuntime.collisionCount++"
CountCollision(st) == [st EXCEPT !.runtime.collisionCount = @ + 1]

\* "if (pin.id === runtime.thrownPinId)": the bookkeeping of the thrown pin's collision
Track(st, j, cfg, thrownOwner, impactSpeed) ==
  IF st.pins[j].id \notin st.runtime.collidedWith
  THEN FirstContact(CountCollision(st), j, cfg, thrownOwner, impactSpeed)
  ELSE CountCollision(st)

\* the body of "if (checkCollision(pin, otherPin, ...))" for pins i and j
Collide(st, i, j, cfg, thrownId, thrownOwner) ==
  IF st.pins[i].id = thrownId
  THEN Track(Respond(st, i, j, cfg, applyCollisionResponse(st.pins[i], st.pins[j])),
             j, cfg, thrownOwner,
             speed(st.pins[i].vx - st.pins[j].vx, st.pins[i].vy - st.pins[j].vy))
  ELSE Respond(st, i, j, cfg, applyCollisionResponse(st.pins[i], st.pins[j]))

\* "for (let j = 0; j < newPins.length; j++)" for the moving pin i
RECURSIVE CollisionLoop(_, _, _, _, _, _)
CollisionLoop(st, i, j, cfg, thrownId, thrownOwner) ==
  IF j > Len(st.pins) THEN st
  ELSE IF i = j THEN CollisionLoop(st, i, j + 1, cfg, thrownId, thrownOwner)
  ELSE IF checkCollision(st.pins[i], st.pins[j], cfg.pinRadius, cfg.pinHeight,
                         cfg.collisionZThreshold)
  THEN CollisionLoop(Collide(st, i, j, cfg, thrownId, thrownOwner), i, j + 1, cfg,
                     thrownId, thrownOwner)
  ELSE CollisionLoop(st, i, j + 1, cfg, thrownId, thrownOwner)

\* the friction factor of this step: ground friction if grounded, else 0.995
FrictionFactor(pin, cfg) == IF isGrounded(pin.z, pin.vz) THEN cfg.friction ELSE 995

\* "pin.vx *= f; pin.vy *= f"
Slow(pin, f) == [pin EXCEPT !.vx = MulMilli(pin.vx, f), !.vy = MulMilli(pin.vy, f)]

\* horizontal friction, after gravity
ApplyFriction(pin, cfg) == Slow(pin, FrictionFactor(pin, cfg))

\* gravity and horizontal friction
ApplyForces(pin, cfg) ==
  ApplyFriction([pin EXCEPT !.vz = applyGravity(pin.vz, cfg.gravity)], cfg)

\* "pin.z = groundResult.z; pin.vz = groundResult.vz"
Grounding(pin, g) == [pin EXCEPT !.z = g.z, !.vz = g.vz]

\* "pin.x += pin.vx ..." and the ground bounce
MoveAndBounce(pin, cfg) ==
  Grounding([pin EXCEPT !.x = pin.x + pin.vx, !.y = pin.y + pin.vy],
            applyGroundBounce(pin.z + pin.vz, pin.vz, cfg.groundRestitution))

\* "pin.x = reflected.x; ..."
Reflected(pin, r) == [pin EXCEPT !.x = r.x, !.y = r.y, !.vx = r.vx, !.vy = r.vy]

\* a step that leaves the pin where the move put it
BoundaryUnchecked(pin, cfg) == pin

\* the boundary check
BoundaryCheck(pin, cfg) ==
  IF isOutOfBounds(pin, cfg) THEN Reflected(pin, applyBoundaryReflection(pin, cfg)) ELSE pin

\* the stop check
StopCheck(pin, cfg) ==
  IF isGrounded(pin.z, pin.vz) /\ DistLess(SpeedSq(pin.vx, pin.vy), cfg.stopThreshold)
  THEN [pin EXCEPT !.vx = 0, !.vy = 0, !.vz = 0, !.z = 0, !.isMoving = FALSE]
  ELSE pin

\* one pass of "for (let i = 0; i < newPins.length; i++)" for pin i, if it is moving
StepPin(st, i, cfg, thrownId, thrownOwner) ==
  [CollisionLoop([st EXCEPT !.pins[i] = ApplyForces(@, cfg)], i, 1, cfg, thrownId,
                 thrownOwner)
     EXCEPT !.pins[i] = StopCheck(BoundaryCheck(MoveAndBounce(@, cfg), cfg), cfg)]

RECURSIVE PinLoop(_, _, _, _, _)
PinLoop(st, i, cfg, thrownId, thrownOwner) ==
  IF i > Len(st.pins) THEN st
  ELSE IF ~st.pins[i].isMoving THEN PinLoop(st, i + 1, cfg, thrownId, thrownOwner)
  ELSE PinLoop(StepPin(st, i, cfg, thrownId, thrownOwner), i + 1, cfg, thrownId,
               thrownOwner)

\* a settled simulation that skips the resolving phase
PhaseWhenSettledSkipping == "turnEnd"

\* simulationStep: the phase after a call that found no pin moving
PhaseWhenSettled == "resolving"

\* "thrownPin?.playerId" for the pin found at index k (0: not found)
OwnerAt(ps, k) == IF k = 0 THEN NoPlayer ELSE ps[k].playerId

\* "set({ pins: newPins, runtime: newRuntime }); return newPins.some(...)"; the
\* generator object is shared, so its draws are kept as well
StepResult(s, st) ==
  [ store |-> [s EXCEPT !.pins = st.pins, !.runtime = st.runtime, !.rng = st.rng],
    ret |-> AnyPinMoving(st.pins) ]

\* simulationStep(): the store after the call and the value returned
simulationStepOn(s) ==
  IF s.phase # "simulating" THEN [store |-> s, ret |-> FALSE]
  ELSE IF ~AnyPinMoving(s.pins)
  THEN [store |-> [s EXCEPT !.phase = PhaseWhenSettled], ret |-> FALSE]
  ELSE StepResult(s, PinLoop([pins |-> s.pins, runtime |-> s.runtime, rng |-> s.rng],
                             1, s.config, s.runtime.thrownPinId,
                             OwnerAt(s.pins, FindPin(s.pins, s.runtime.thrownPinId))))


-----------------------------------------------------------------------------
(* resolveThrow, nextTurn, reset                                           *)

\* a resolveThrow that also scores while the simulation is still running
ResolveAcceptedWhileSimulating(s) == s.phase \in {"simulating", "resolving"}

\* resolveThrow: "if (state.phase !== 'resolving') return"
ResolveAccepted(s) == s.phase = "resolving"

\* a landing multiplier that ignores the roll
LandingMultiplierFlat(isStanding) == 1

\* "const landingMultiplier = isStanding ? 2 : 1"
LandingMultiplier(isStanding) == IF isStanding THEN 2 ELSE 1

\* a bonus multiplier that ignores how the thrown pin ended
BonusMultiplierFlat(isStanding) == 2

\* "const bonusMultiplier = isStanding ? 4 : 2"
BonusMultiplier(isStanding) == IF isStanding THEN 4 ELSE 2

\* "const lossMultiplier = originalWasStanding ? 2 : 1" with originalWasStanding = true
LossMultiplier == 2

\* the deltas of a thrower who gains bonus while the other player loses loss, added
\* to acc = [deltaP1, deltaP2, texts] with one more text
Credit(acc, thrower, bonus, loss, text) ==
  IF thrower = 1
  THEN [ deltaP1 |-> acc.deltaP1 + bonus, deltaP2 |-> acc.deltaP2 - loss,
         texts |-> Append(acc.texts, text) ]
  ELSE [ deltaP1 |-> acc.deltaP1 - loss, deltaP2 |-> acc.deltaP2 + bonus,
         texts |-> Append(acc.texts, text) ]

\* one knocked pin: bonus for the knocker, loss for the opponent
KnockDeltas(acc, thrower, knockedPin, info, isStanding) ==
  Credit(acc, thrower, BonusMultiplier(isStanding) * info.points,
         LossMultiplier * info.points,
         [ kind |-> "knocked", playerId |-> knockedPin.playerId,
           ringIndex |-> info.ringIndex,
           bonus |-> BonusMultiplier(isStanding) * info.points,
           loss |-> LossMultiplier * info.points ])

\* the knocked pin found at index idx (0: "if (!knockedPin) return")
KnockAt(s, idx, isStanding, acc) ==
  IF idx = 0 THEN acc
  ELSE KnockDeltas(acc, s.currentPlayerId, s.pins[idx],
                   findRing(s.pins[idx].x, s.pins[idx].y, s.config), isStanding)

\* runtime.knockedIds.forEach(...): acc is [deltaP1, deltaP2, texts]
RECURSIVE KnockLoop(_, _, _, _, _)
KnockLoop(s, ids, k, isStanding, acc) ==
  IF k > Len(ids) THEN acc
  ELSE KnockLoop(s, ids, k + 1, isStanding,
                 KnockAt(s, FindPin(s.pins, ids[k]), isStanding, acc))

\* deltas credited to the wrong players
ApplyDeltasSwapped(ps, deltaP1, deltaP2) ==
  << [ps[1] EXCEPT !.score = @ + deltaP2], [ps[2] EXCEPT !.score = @ + deltaP1] >>

\* the players after the deltas are applied
ApplyDeltas(ps, deltaP1, deltaP2) ==
  << [ps[1] EXCEPT !.score = @ + deltaP1], [ps[2] EXCEPT !.score = @ + deltaP2] >>

\* the entry appended to the log (its timestamp goes with its id)
NewEvent(eventId, acc) ==
  [id |-> eventId, text |-> acc.texts, deltaP1 |-> acc.deltaP1, deltaP2 |-> acc.deltaP2]

\* a commit that starts the log afresh with the new entry
CommitFreshLog(s, k, eventId, isStanding, rngState, acc) ==
  [s EXCEPT !.pins[k].state = IF isStanding THEN "standing" ELSE "fallen",
            !.players = ApplyDeltas(@, acc.deltaP1, acc.deltaP2),
            !.eventLog = << NewEvent(eventId, acc) >>,
            !.rng = rngState,
            !.phase = "turnEnd"]

\* "set({ pins: newPins, players: newPlayers, eventLog: [...], phase: 'turnEnd' })"
Commit(s, k, eventId, isStanding, rngState, acc) ==
  [s EXCEPT !.pins[k].state = IF isStanding THEN "standing" ELSE "fallen",
            !.players = ApplyDeltas(@, acc.deltaP1, acc.deltaP2),
            !.eventLog = Append(@, NewEvent(eventId, acc)),
            !.rng = rngState,
            !.phase = "turnEnd"]

\* the landing score of the thrown pin, credited to the thrower
Landing(thrower, info, isStanding) ==
  Credit([deltaP1 |-> 0, deltaP2 |-> 0, texts |-> <<>>], thrower,
         LandingMultiplier(isStanding) * info.points, 0,
         [ kind |-> "landed", standing |-> isStanding, ringIndex |-> info.ringIndex,
           points |-> info.points,
           score |-> LandingMultiplier(isStanding) * info.points ])

\* the scores once the stand roll is made
ScoreRolled(s, k, eventId, info, roll) ==
  Commit(s, k, eventId, roll.hit, roll.state,
         KnockLoop(s, s.runtime.knockedIds, 1, roll.hit,
                   Landing(s.currentPlayerId, info, roll.hit)))

\* the stand roll for the thrown pin in ring info
ScoreIn(s, k, eventId, info) ==
  ScoreRolled(s, k, eventId, info,
              Chance(s.rng, calculateStandProbability(s.config, info.ringIndex,
                                                      s.runtime.collisionCount)))

\* the scoring part of resolveThrow, for the thrown pin at index k
Score(s, k, eventId) ==
  ScoreIn(s, k, eventId, findRing(s.pins[k].x, s.pins[k].y, s.config))

\* a resolveThrow that returns without the transition when the thrown pin is missing
resolveThrowStuck(s, eventId) ==
  IF ~ResolveAccepted(s) THEN s
  ELSE IF FindPin(s.pins, s.runtime.thrownPinId) = 0 THEN s
  ELSE Score(s, FindPin(s.pins, s.runtime.thrownPinId), eventId)

\* resolveThrow()
resolveThrowOn(s, eventId) ==
  IF ~ResolveAccepted(s) THEN s
  ELSE IF FindPin(s.pins, s.runtime.thrownPinId) = 0 THEN [s EXCEPT !.phase = "turnEnd"]
  ELSE Score(s, FindPin(s.pins, s.runtime.thrownPinId), eventId)

\* a nextTurn that keeps the player
SamePlayer(p) == p

\* "currentPlayerId === 1 ? 2 : 1"
OtherPlayer(p) == IF p = 1 THEN 2 ELSE 1

\* a nextTurn that leaves the runtime of the throw in place
nextTurnKeepingRuntime(s) ==
  IF s.phase # "turnEnd" THEN s
  ELSE [s EXCEPT !.currentPlayerId = OtherPlayer(@), !.phase = "idle"]

\* nextTurn()
nextTurnOn(s) ==
  IF s.phase # "turnEnd" THEN s
  ELSE [s EXCEPT !.currentPlayerId = OtherPlayer(s.currentPlayerId),
                 !.phase = "idle",
                 !.runtime = createInitialRuntime]

\* a reset that keeps the generator it had
resetKeepingGenerator(s) ==
  [s EXCEPT !.players = DEFAULT_PLAYERS,
            !.pins = <<>>,
            !.currentPlayerId = 1,
            !.phase = "idle",
            !.eventLog = <<>>,
            !.runtime = createInitialRuntime]

\* a reset that leaves the runtime of the throw in place
resetKeepingRuntime(s) ==
  [s EXCEPT !.players = DEFAULT_PLAYERS,
            !.pins = <<>>,
            !.currentPlayerId = 1,
            !.phase = "idle",
            !.eventLog = <<>>,
            !.rng = ToUint32(s.config.seed)]

\* reset()
resetOn(s) ==
  [s EXCEPT !.players = DEFAULT_PLAYERS,
            !.pins = <<>>,
            !.currentPlayerId = 1,
            !.phase = "idle",
            !.eventLog = <<>>,
            !.runtime = createInitialRuntime,
            !.rng = ToUint32(s.config.seed)]


-----------------------------------------------------------------------------
(* Inputs of the configuration commands.                                   *)

UpdateConfigInputs ==
  { [maxPinsOnBoard |-> 0], [maxPinsOnBoard |-> 2], [seed |-> 7] }

UpdateRingInputs == { <<0, [points |-> 5]>> }

RemoveRingInputs == {0}

SetThrowParamsInputs == { <<30, 500>> }

-----------------------------------------------------------------------------
(* The state machine.                                                      *)

Init ==
  /\ config = DEFAULT_CONFIG
  /\ players = DEFAULT_PLAYERS
  /\ pins = <<>>
  /\ currentPlayerId = 1
  /\ phase = "idle"
  /\ eventLog = <<>>
  /\ runtime = createInitialRuntime
  /\ rng = ToUint32(DEFAULT_CONFIG.seed)
  /\ idCounter = [pin |-> 0, event |-> 0]
  /\ hung = FALSE
  /\ last = [op |-> "create", ret |-> FALSE]
  /\ logAtThrow = 0
  /\ edits = 0

\* set(...): the store after a command
Install(s) ==
  /\ config' = s.config
  /\ players' = s.players
  /\ pins' = s.pins
  /\ currentPlayerId' = s.currentPlayerId
  /\ phase' = s.phase
  /\ eventLog' = s.eventLog
  /\ runtime' = s.runtime
  /\ rng' = s.rng

Returned(op, ret) == last' = [op |-> op, ret |-> ret]

UpdateConfig ==
  /\ ~hung /\ edits < MaxEdits
  /\ \E partial \in UpdateConfigInputs : Install(updateConfigOn(Store, partial))
  /\ Returned("updateConfig", FALSE)
  /\ edits' = edits + 1
  /\ UNCHANGED <<idCounter, hung, logAtThrow>>

UpdateRing ==
  /\ ~hung /\ edits < MaxEdits
  /\ \E in \in UpdateRingInputs : Install(updateRingOn(Store, in[1], in[2]))
  /\ Returned("updateRing", FALSE)
  /\ edits' = edits + 1
  /\ UNCHANGED <<idCounter, hung, logAtThrow>>

AddRing ==
  /\ ~hung /\ edits < MaxEdits
  /\ Install(addRingOn(Store))
  /\ Returned("addRing", FALSE)
  /\ edits' = edits + 1
  /\ UNCHANGED <<idCounter, hung, logAtThrow>>

RemoveRing ==
  /\ ~hung /\ edits < MaxEdits
  /\ \E index \in RemoveRingInputs : Install(removeRingOn(Store, index))
  /\ Returned("removeRing", FALSE)
  /\ edits' = edits + 1
  /\ UNCHANGED <<idCounter, hung, logAtThrow>>

SetThrowParams ==
  /\ ~hung /\ edits < MaxEdits
  /\ \E in \in SetThrowParamsInputs : Install(setThrowParamsOn(Store, in[1], in[2]))
  /\ Returned("setThrowParams", FALSE)
  /\ edits' = edits + 1
  /\ UNCHANGED <<idCounter, hung, logAtThrow>>

\* throwPin(): a no-op outside idle; in idle it throws, or never returns
ThrowPin ==
  /\ ~hung
  /\ IF ~ThrowAccepted(Store)
     THEN /\ Returned("throwPin", FALSE)
          /\ UNCHANGED <<storeVars, idCounter, hung, logAtThrow, edits>>
     ELSE IF ~EvictionTerminates(Store)
     THEN /\ hung' = TRUE
          /\ UNCHANGED <<storeVars, idCounter, last, logAtThrow, edits>>
     ELSE /\ idCounter.pin < MaxThrows
          /\ Install(throwPinOn(Store, idCounter.pin + 1))
          /\ idCounter' = [idCounter EXCEPT !.pin = @ + 1]
          /\ logAtThrow' = Len(eventLog)
          /\ Returned("throwPin", TRUE)
          /\ UNCHANGED <<hung, edits>>

SimulationStep ==
  /\ ~hung
  /\ \E r \in {simulationStepOn(Store)} :
        /\ Install(r.store)
        /\ Returned("simulationStep", r.ret)
  /\ UNCHANGED <<idCounter, hung, logAtThrow, edits>>

\* generateEventId() is called only when the throw is scored
EventsGenerated(s) ==
  IF ResolveAccepted(s) /\ FindPin(s.pins, s.runtime.thrownPinId) # 0 THEN 1 ELSE 0

ResolveThrow ==
  /\ ~hung
  /\ Install(resolveThrowOn(Store, idCounter.event + 1))
  /\ idCounter' = [idCounter EXCEPT !.event = @ + EventsGenerated(Store)]
  /\ Returned("resolveThrow", FALSE)
  /\ UNCHANGED <<hung, logAtThrow, edits>>

NextTurn ==
  /\ ~hung
  /\ Install(nextTurnOn(Store))
  /\ Returned("nextTurn", FALSE)
  /\ logAtThrow' = IF phase = "turnEnd" THEN Len(eventLog) ELSE logAtThrow
  /\ UNCHANGED <<idCounter, hung, edits>>

Reset ==
  /\ ~hung
  /\ Install(resetOn(Store))
  /\ Returned("reset", FALSE)
  /\ logAtThrow' = 0
  /\ UNCHANGED <<idCounter, hung, edits>>

\* GameCanvas: the animation frame callback, requested while phase is simulating:
\* "const isStillMoving = simulationStep(); if (!isStillMoving) resolveThrow()"
Animate ==
  /\ ~hung
  /\ phase = "simulating"
  /\ \E r \in {simulationStepOn(Store)} :
        /\ Install(IF r.ret THEN r.store
                   ELSE resolveThrowOn(r.store, idCounter.event + 1))
        /\ idCounter' = [idCounter EXCEPT
                           !.event = @ + (IF r.ret THEN 0 ELSE EventsGenerated(r.store))]
        /\ Returned(IF r.ret THEN "simulationStep" ELSE "animate", r.ret)
  /\ UNCHANGED <<hung, logAtThrow, edits>>

Next ==
  \/ UpdateConfig
  \/ UpdateRing
  \/ AddRing
  \/ RemoveRing
  \/ SetThrowParams
  \/ ThrowPin
  \/ SimulationStep
  \/ ResolveThrow
  \/ NextTurn
  \/ Reset
  \/ Animate

Spec == Init /\ [][Next]_vars

-----------------------------------------------------------------------------
(* Store states installed directly (zustand's useGameStore.setState), on   *)
(* which resolveThrow and nextTurn are then called.  They include boards   *)
(* that hold no pin with the tracked id, which no sequence of the store's  *)
(* own commands produces.                                                  *)

RestingPin(id, owner, y) ==
  [ id |-> id, playerId |-> owner, x |-> DEFAULT_CONFIG.canvasSize \div 2, y |-> y,
    z |-> 0, vx |-> 0, vy |-> 0, vz |-> 0, state |-> "standing", isMoving |-> FALSE ]

FallenPin(id, owner, y) == [RestingPin(id, owner, y) EXCEPT !.state = "fallen"]

ResolveBoards ==
  { <<>>,
    <<RestingPin(1, 1, 2800)>>,
    <<RestingPin(1, 1, 4253), RestingPin(2, 2, 3200)>>,
    <<RestingPin(2, 2, 1200), RestingPin(3, 1, 3900)>>,
    <<FallenPin(1, 2, 2200), FallenPin(2, 2, 3300), RestingPin(3, 1, 2800)>> }

\* the largest collision count of an installed runtime
MaxCollisions == 1

ResolveRuntimes ==
  { [createInitialRuntime EXCEPT !.thrownPinId = t, !.collisionCount = c,
                                 !.knockedIds = k] :
      t \in 0..MaxThrows, c \in 0..MaxCollisions, k \in {<<>>, <<1>>, <<2>>, <<1, 2>>, <<2, 1>>} }

InitResolve ==
  /\ config = DEFAULT_CONFIG
  /\ players = DEFAULT_PLAYERS
  /\ pins \in ResolveBoards
  /\ currentPlayerId \in {1, 2}
  /\ phase \in {"idle", "simulating", "resolving"}
  /\ eventLog = <<>>
  /\ runtime \in ResolveRuntimes
  /\ rng \in {ToUint32(DEFAULT_CONFIG.seed), ToUint32(7)}
  /\ idCounter = [pin |-> MaxThrows, event |-> 0]
  /\ hung = FALSE
  /\ last = [op |-> "create", ret |-> FALSE]
  /\ logAtThrow = 0
  /\ edits = 0

NextResolve ==
  \/ ResolveThrow
  \/ NextTurn

SpecResolve == InitResolve /\ [][NextResolve]_vars

-----------------------------------------------------------------------------
(* The store with the ids as the program generates them: generatePinId and  *)
(* generateEventId build an id from Date.now() and Math.random(), and the   *)
(* log entry's ts is Date.now().  An id is the number of the call (ids of   *)
(* different calls differ) together with a stamp standing for the clock and *)
(* the random suffix.                                                       *)

\* the largest stamp
MaxStamp == 1

Stamps == 0..MaxStamp

\* generatePinId(), for the n-th pin
generatePinId(n, stamp) == n * (MaxStamp + 1) + stamp

\* generateEventId() and Date.now(), for the n-th event
generateEventId(n, stamp) == n * (MaxStamp + 1) + stamp

ThrowPinStamped ==
  /\ ~hung
  /\ IF ~ThrowAccepted(Store)
     THEN /\ Returned("throwPin", FALSE)
          /\ UNCHANGED <<storeVars, idCounter, hung, logAtThrow, edits>>
     ELSE IF ~EvictionTerminates(Store)
     THEN /\ hung' = TRUE
          /\ UNCHANGED <<storeVars, idCounter, last, logAtThrow, edits>>
     ELSE /\ idCounter.pin < MaxThrows
          /\ \E stamp \in Stamps :
                Install(throwPinOn(Store, generatePinId(idCounter.pin + 1, stamp)))
          /\ idCounter' = [idCounter EXCEPT !.pin = @ + 1]
          /\ logAtThrow' = Len(eventLog)
          /\ Returned("throwPin", TRUE)
          /\ UNCHANGED <<hung, edits>>

ResolveThrowStamped ==
  /\ ~hung
  /\ \E stamp \in Stamps :
        Install(resolveThrowOn(Store, generateEventId(idCounter.event + 1, stamp)))
  /\ idCounter' = [idCounter EXCEPT !.event = @ + EventsGenerated(Store)]
  /\ Returned("resolveThrow", FALSE)
  /\ UNCHANGED <<hung, logAtThrow, edits>>

NextStamped ==
  \/ ThrowPinStamped
  \/ SimulationStep
  \/ ResolveThrowStamped
  \/ NextTurn
  \/ Reset

SpecStamped == Init /\ [][NextStamped]_vars

-----------------------------------------------------------------------------
(* The store's generator driven on its own: next() and chance() calls on   *)
(* state.rng, and reset(), for several configured seeds.  Here last is     *)
(* [op, value, p, hit, index, drawn]: the 32-bit numerator of the value    *)
(* drawn, the probability asked and the answer, the number of draws since  *)
(* the generator was constructed and the number of draws in the run.       *)

\* draws made in one run
MaxDraws == 4

Seeds == {0, 7, DEFAULT_CONFIG.seed, 65536, 2147483647}

ChanceInputs == {0, 500, Milli}

InitRng ==
  /\ config \in {[DEFAULT_CONFIG EXCEPT !.seed = sd] : sd \in Seeds}
  /\ players = DEFAULT_PLAYERS
  /\ pins = <<>>
  /\ currentPlayerId = 1
  /\ phase = "idle"
  /\ eventLog = <<>>
  /\ runtime = createInitialRuntime
  /\ rng = ToUint32(config.seed)
  /\ idCounter = [pin |-> 0, event |-> 0]
  /\ hung = FALSE
  /\ last = [op |-> "create", value |-> <<0, 0>>, p |-> 0, hit |-> FALSE,
             index |-> 0, drawn |-> 0]
  /\ logAtThrow = 0
  /\ edits = 0

\* the record of a draw
Drawn(op, n, p, hit) ==
  last' = [op |-> op, value |-> n.value, p |-> p, hit |-> hit,
           index |-> last.index + 1, drawn |-> last.drawn + 1]

\* rng.next()
RngNext ==
  /\ last.drawn < MaxDraws
  /\ \E n \in {Mulberry32Next(rng)} :
        /\ rng' = n.state
        /\ Drawn("next", n, 0, FALSE)
  /\ UNCHANGED <<config, players, pins, currentPlayerId, phase, eventLog, runtime,
                 idCounter, hung, logAtThrow, edits>>

\* rng.chance(p)
RngChance ==
  /\ last.drawn < MaxDraws
  /\ \E p \in ChanceInputs :
        \E n \in {Mulberry32Next(rng)} :
           /\ rng' = ChanceOf(n, p).state
           /\ Drawn("chance", n, p, ChanceOf(n, p).hit)
  /\ UNCHANGED <<config, players, pins, currentPlayerId, phase, eventLog, runtime,
                 idCounter, hung, logAtThrow, edits>>

\* reset(): "rng: new Mulberry32(config.seed)"
RngReset ==
  /\ Install(resetOn(Store))
  /\ last' = [last EXCEPT !.op = "reset", !.index = 0]
  /\ UNCHANGED <<idCounter, hung, logAtThrow, edits>>

NextRng ==
  \/ RngNext
  \/ RngChance
  \/ RngReset

SpecRng == InitRng /\ [][NextRng]_vars

-----------------------------------------------------------------------------
(* The same, for a generator that has been drawing for a long time: it was *)
(* constructed with a small seed and has served 4917757 draws, so its      *)
(* state is seed + 4917757 * 0x6d2b79f5 = seed + 9007195597841441          *)
(*        = seed + 2097151 * 2^32 + 9736 * 2^16 + 9249,                    *)
(* the last but one state below 2^53.                                      *)

LongRunDraws == 4917757

LongRunSeeds == {0, 7}

LongRunState(seed) == Normalize(2097151, 9736, 9249 + seed)

InitRngLong ==
  /\ config \in {[DEFAULT_CONFIG EXCEPT !.seed = sd] : sd \in LongRunSeeds}
  /\ players = DEFAULT_PLAYERS
  /\ pins = <<>>
  /\ currentPlayerId = 1
  /\ phase = "idle"
  /\ eventLog = <<>>
  /\ runtime = createInitialRuntime
  /\ rng = LongRunState(config.seed)
  /\ idCounter = [pin |-> 0, event |-> 0]
  /\ hung = FALSE
  /\ last = [op |-> "create", value |-> <<0, 0>>, p |-> 0, hit |-> FALSE,
             index |-> LongRunDraws, drawn |-> 0]
  /\ logAtThrow = 0
  /\ edits = 0

SpecRngLong == InitRngLong /\ [][NextRng]_vars

-----------------------------------------------------------------------------
(* A specification of the ring lookup alone: the configuration holds one   *)
(* of a few ring lists, well-formed, overlapping or malformed, and         *)
(* findRing is called on positions around the arena centre.                *)

MkRing(inner, outer, points) ==
  [innerRadius |-> inner, outerRadius |-> outer, points |-> points]

RingLists ==
  { DEFAULT_CONFIG.rings,
    <<>>,
    << MkRing(0, 1000, 1), MkRing(0, 500, 5) >>,
    << MkRing(0, 500, 5), MkRing(0, 1000, 1) >>,
    << MkRing(500, 0, 9), MkRing(0, 1500, 2) >>,
    << MkRing(0, 300, 3), MkRing(700, 1000, 1) >>,
    << MkRing(-100, 200, 4), MkRing(200, 200, 6), MkRing(100, 600, 7) >> }

OutsideScores == {0, -1}

\* offsets of the position from the arena centre
Offsets ==
  { <<0, 0>>, <<250, 0>>, <<-250, 0>>, <<300, 400>>, <<0, 499>>, <<-500, 0>>,
    <<0, -700>>, <<1000, 0>>, <<0, 1499>>, <<5000, 0>> }

InitFindRing ==
  /\ config \in { [DEFAULT_CONFIG EXCEPT !.rings = rs, !.ringCount = Len(rs),
                                         !.outsideScore = o] :
                    rs \in RingLists, o \in OutsideScores }
  /\ players = DEFAULT_PLAYERS
  /\ pins = <<>>
  /\ currentPlayerId = 1
  /\ phase = "idle"
  /\ eventLog = <<>>
  /\ runtime = createInitialRuntime
  /\ rng = ToUint32(config.seed)
  /\ idCounter = [pin |-> 0, event |-> 0]
  /\ hung = FALSE
  /\ last = [op |-> "create", x |-> 0, y |-> 0, ringIndex |-> -1, points |-> 0]
  /\ logAtThrow = 0
  /\ edits = 0

\* findRing(x, y, config)
FindRingCall ==
  /\ \E off \in Offsets :
        \E x \in {config.canvasSize \div 2 + off[1]} :
          \E y \in {config.canvasSize \div 2 + off[2]} :
            \E r \in {findRing(x, y, config)} :
              last' = [op |-> "findRing", x |-> x, y |-> y,
                       ringIndex |-> r.ringIndex, points |-> r.points]
  /\ UNCHANGED <<config, players, pins, currentPlayerId, phase, eventLog, runtime,
                 rng, idCounter, hung, logAtThrow, edits>>

NextFindRing == FindRingCall

SpecFindRing == InitFindRing /\ [][NextFindRing]_vars

-----------------------------------------------------------------------------
(* One throw followed step by step, as the animation frame callback of     *)
(* GameCanvas drives it.  The configuration holds one of a few pairs       *)
(* <<gravity, groundRestitution>> that the settings panel accepts          *)
(* (gravity 0.1 to 2, groundRestitution 0 to 0.9).                         *)

FallSettings == { <<5, 300>>, <<20, 300>>, <<20, 500>> }

InitFall ==
  /\ config \in { [DEFAULT_CONFIG EXCEPT !.gravity = gr[1], !.groundRestitution = gr[2]] :
                    gr \in FallSettings }
  /\ players = DEFAULT_PLAYERS
  /\ pins = <<>>
  /\ currentPlayerId = 1
  /\ phase = "idle"
  /\ eventLog = <<>>
  /\ runtime = createInitialRuntime
  /\ rng = ToUint32(config.seed)
  /\ idCounter = [pin |-> 0, event |-> 0]
  /\ hung = FALSE
  /\ last = [op |-> "create", ret |-> FALSE]
  /\ logAtThrow = 0
  /\ edits = 0

NextFall ==
  \/ ThrowPin
  \/ SimulationStep

SpecFall == InitFall /\ [][NextFall]_vars

-----------------------------------------------------------------------------
(* A specification of the pure helpers of physics.ts: each action calls    *)
(* one helper on inputs drawn from small sets and records the call and its *)
(* result in last.                                                         *)

\* the largest collision count passed to calculateStandProbability
MaxPenaltyCount == 7

BaseStandProbs == {0, 500, 900, Milli}

PhysicsConfigs ==
  { [DEFAULT_CONFIG EXCEPT !.baseStandProb = b, !.ringBonusEnabled = rb,
                           !.collisionPenaltyEnabled = cp,
                           !.rings = rs, !.ringCount = Len(rs)] :
      b \in BaseStandProbs, rb \in BOOLEAN, cp \in BOOLEAN,
      rs \in {DEFAULT_CONFIG.rings, <<>>, <<MkRing(0, 500, 3)>>} }

InitPhysics ==
  /\ config \in PhysicsConfigs
  /\ players = DEFAULT_PLAYERS
  /\ pins = <<>>
  /\ currentPlayerId = 1
  /\ phase = "idle"
  /\ eventLog = <<>>
  /\ runtime = createInitialRuntime
  /\ rng = ToUint32(config.seed)
  /\ idCounter = [pin |-> 0, event |-> 0]
  /\ hung = FALSE
  /\ last = [op |-> "create"]
  /\ logAtThrow = 0
  /\ edits = 0

\* calculateStandProbability(config, ringIndex, collisionCount)
StandProbabilityCall ==
  /\ \E ringIndex \in -1..(Len(config.rings) - 1) :
        \E collisionCount \in 0..MaxPenaltyCount :
          last' = [op |-> "calculateStandProbability", ringIndex |-> ringIndex,
                   collisionCount |-> collisionCount,
                   value |-> calculateStandProbability(config, ringIndex, collisionCount)]
  /\ UNCHANGED <<config, players, pins, currentPlayerId, phase, eventLog, runtime,
                 rng, idCounter, hung, logAtThrow, edits>>

\* offsets of the struck pin from the moving pin, and horizontal velocities
PairOffsets == { <<0, 0>>, <<150, 0>>, <<100, 100>>, <<-30, 170>> }

PairVelocities == { <<0, 0>>, <<20, 0>>, <<-10, 15>>, <<-2, -4>> }

\* a pin at the given offset from the arena centre with the given velocity
PinAt(id, off, v, vz) ==
  [RestingPin(id, id, 0) EXCEPT !.x = config.canvasSize \div 2 + off[1],
                                !.y = config.canvasSize \div 2 + off[2],
                                !.vx = v[1], !.vy = v[2], !.vz = vz]

\* applyCollisionResponse(movingPin, staticPin)
CollisionResponseCall ==
  /\ \E off \in PairOffsets, mv \in PairVelocities, sv \in PairVelocities, vz \in {0, -15} :
        \E movingPin \in {PinAt(1, <<0, 0>>, mv, vz)} :
          \E staticPin \in {PinAt(2, off, sv, 0)} :
            last' = [op |-> "applyCollisionResponse", movingPin |-> movingPin,
                     staticPin |-> staticPin,
                     response |-> applyCollisionResponse(movingPin, staticPin)]
  /\ UNCHANGED <<config, players, pins, currentPlayerId, phase, eventLog, runtime,
                 rng, idCounter, hung, logAtThrow, edits>>

\* gravity values the settings panel accepts (0.1 to 2), the default 0.5 among them
Gravities == {1, 4, 5, 20}

\* heights and vertical velocities of the pin at the start of the step
PinHeights == { <<0, 0>>, <<0, 26>>, <<1, 0>>, <<40, -12>>, <<200, 15>> }

\* horizontal velocities large enough for the two coefficients to differ
SlideVelocities == { <<-2, -4>>, <<100, -60>>, <<0, 96>> }

\* the first stage of a moving pin's pass in simulationStep: gravity, then friction
ApplyForcesCall ==
  /\ \E g \in Gravities, h \in PinHeights, v \in SlideVelocities :
        \E pin \in {[PinAt(1, <<0, 0>>, v, h[2]) EXCEPT !.z = h[1], !.isMoving = TRUE]} :
          last' = [op |-> "applyForces", pin |-> pin, gravity |-> g,
                   result |-> ApplyForces(pin, [config EXCEPT !.gravity = g])]
  /\ UNCHANGED <<config, players, pins, currentPlayerId, phase, eventLog, runtime,
                 rng, idCounter, hung, logAtThrow, edits>>

\* heights of the two pins, around pinHeight (30) and pinHeight + zThreshold (55)
HeightPairs ==
  { <<0, 0>>, <<300, 0>>, <<301, 0>>, <<0, 301>>, <<550, 0>>, <<551, 0>>, <<0, 551>>,
    <<550, 550>> }

\* offsets of the second pin, around the distance 2 * pinRadius (20)
TouchOffsets == { <<0, 0>>, <<199, 0>>, <<120, 160>> }

PinStates == {"standing", "fallen"}

\* checkCollision(a, b, pinRadius, pinHeight, zThreshold), and with the pins swapped
CollisionCheckCall ==
  /\ \E h \in HeightPairs, off \in TouchOffsets, sa \in PinStates, sb \in PinStates :
        \E a \in {[PinAt(1, <<0, 0>>, <<0, 0>>, 0) EXCEPT !.z = h[1], !.state = sa]} :
          \E b \in {[PinAt(2, off, <<0, 0>>, 0) EXCEPT !.z = h[2], !.state = sb]} :
            last' = [op |-> "checkCollision", a |-> a, b |-> b,
                     hit |-> checkCollision(a, b, config.pinRadius, config.pinHeight,
                                            config.collisionZThreshold),
                     swapped |-> checkCollision(b, a, config.pinRadius, config.pinHeight,
                                                config.collisionZThreshold)]
  /\ UNCHANGED <<config, players, pins, currentPlayerId, phase, eventLog, runtime,
                 rng, idCounter, hung, logAtThrow, edits>>

NextPhysics ==
  \/ StandProbabilityCall
  \/ CollisionResponseCall
  \/ ApplyForcesCall
  \/ CollisionCheckCall

SpecPhysics == InitPhysics /\ [][NextPhysics]_vars

-----------------------------------------------------------------------------
(* Properties.                                                             *)

\* C1: for a throw started from idle, once a simulationStep call has returned false,
\* a single resolveThrow call leaves phase = turnEnd and the event log exactly one
\* entry longer than before the throw.  (Stated for the unedited configuration.)
C1_ResolveAfterStepReturnsFalse ==
  [][ ( /\ edits = 0
        /\ phase \in {"simulating", "resolving"}
        /\ last = [op |-> "simulationStep", ret |-> FALSE]
        /\ ResolveThrow )
      => ( phase' = "turnEnd" /\ Len(eventLog') = logAtThrow + 1 ) ]_vars

\* C2: after any simulationStep executed in phase simulating, the phase is simulating
\* if some pin is moving after the step and resolving otherwise.
C2_PhaseFollowsMovement ==
  [][ (SimulationStep /\ phase = "simulating")
      => ( phase' = IF AnyPinMoving(pins') THEN "simulating" ELSE "resolving" ) ]_vars

\* C3: the configuration commands are ignored outside idle, so config does not change
\* in a step taken while phase is simulating, resolving or turnEnd.
C3_ConfigFrozenOutsideIdle ==
  [][ phase # "idle" => config' = config ]_vars

\* C4: throwPin called in a phase other than idle changes nothing: pins, phase,
\* runtime, players, currentPlayerId, eventLog, the generator and config stay the same.
C4_ThrowOutsideIdleIsNoOp ==
  [][ (ThrowPin /\ phase # "idle") => UNCHANGED storeVars ]_vars

\* a throwPin call was rejected while a pin was in flight
C4_Witness ==
  /\ last = [op |-> "throwPin", ret |-> FALSE]
  /\ phase = "simulating"
  /\ AnyPinMoving(pins)

\* C5: a throwPin call in idle that returns sets phase to simulating, keeps the pins
\* that remain in their order and appends one pin with a new id as the last element
\* (at the launch point, z = 0, owned by currentPlayerId, standing, moving), installs
\* a runtime tagged with that id with collisionCount 0 and empty collidedWith,
\* knockedIds and impactSpeeds, and leaves players, eventLog and currentPlayerId alone.
C5_ThrowInIdle ==
  [][ (ThrowPin /\ phase = "idle" /\ ~hung')
      => ( /\ phase' = "simulating"
           /\ Len(pins') >= 1
           /\ Len(pins') - 1 <= Len(pins)
           /\ \A i \in 1..(Len(pins') - 1) :
                 pins'[i] = pins[Len(pins) - (Len(pins') - 1) + i]
           /\ \A i \in 1..Len(pins) : pins[i].id # pins'[Len(pins')].id
           /\ pins'[Len(pins')].x = getThrowStartPosition(config.canvasSize).x
           /\ pins'[Len(pins')].y = getThrowStartPosition(config.canvasSize).y
           /\ pins'[Len(pins')].z = 0
           /\ pins'[Len(pins')].playerId = currentPlayerId
           /\ pins'[Len(pins')].state = "standing"
           /\ pins'[Len(pins')].isMoving
           /\ runtime' = [ thrownPinId |-> pins'[Len(pins')].id, collisionCount |-> 0,
                           knockedIds |-> <<>>, collidedWith |-> {},
                           impactSpeeds |-> <<>> ]
           /\ UNCHANGED <<players, eventLog, currentPlayerId>> ) ]_vars

\* a second pin has just been thrown onto a board that holds the first
C5_Witness ==
  /\ last = [op |-> "throwPin", ret |-> TRUE]
  /\ phase = "simulating"
  /\ Len(pins) = 2
  /\ runtime.thrownPinId = pins[2].id

\* C6: nextTurn changes nothing unless phase is turnEnd; in turnEnd it sets phase to
\* idle, switches currentPlayerId, clears the runtime and leaves pins, players and
\* eventLog alone; and pins thrown one after the other have different owners.
C6_NextTurn ==
  [][ /\ NextTurn =>
           IF phase = "turnEnd"
           THEN /\ phase' = "idle"
                /\ currentPlayerId' = (IF currentPlayerId = 1 THEN 2 ELSE 1)
                /\ runtime' = createInitialRuntime
                /\ UNCHANGED <<pins, players, eventLog>>
           ELSE UNCHANGED storeVars
      /\ \A i \in 1..(Len(pins') - 1) : pins'[i].playerId # pins'[i + 1].playerId
    ]_vars

\* the turn passed to player 2 after player 1's throw was scored
C6_Witness ==
  /\ last.op = "nextTurn"
  /\ phase = "idle"
  /\ currentPlayerId = 2
  /\ Len(pins) = 1
  /\ Len(eventLog) = 1

\* C7: reset, in any phase, leaves phase idle, no pins, an empty log, both scores 0,
\* an empty runtime, the generator seeded with the configured seed, and config as it
\* was.
C7_Reset ==
  [][ Reset
      => ( /\ phase' = "idle"
           /\ pins' = <<>>
           /\ eventLog' = <<>>
           /\ players'[1].score = 0
           /\ players'[2].score = 0
           /\ runtime' = createInitialRuntime
           /\ rng' = [ top |-> 0, hi |-> (config.seed \div Two16) % Two16,
                       lo |-> config.seed % Two16 ]
           /\ config' = config ) ]_vars

\* a game with a changed seed and a scored throw has been reset
C7_Witness ==
  /\ last.op = "reset"
  /\ config.seed # DEFAULT_CONFIG.seed
  /\ idCounter.event >= 1

\* C8: resolveThrow called in phase resolving ends in phase turnEnd; when no pin has
\* the tracked id, pins, players, eventLog and the generator are unchanged.
C8_ResolveAlwaysEndsTurn ==
  [][ (ResolveThrow /\ phase = "resolving")
      => ( /\ phase' = "turnEnd"
           /\ FindPin(pins, runtime.thrownPinId) = 0
                => ( pins' = pins /\ players' = players /\ eventLog' = eventLog
                     /\ rng' = rng ) ) ]_vars

\* the turn ended on a board that holds pins but not the tracked one
C8_Witness ==
  /\ last.op = "resolveThrow"
  /\ phase = "turnEnd"
  /\ pins # <<>>
  /\ runtime.thrownPinId # NoPin
  /\ FindPin(pins, runtime.thrownPinId) = 0

\* C9: between a throw and the next nextTurn or reset the scores change and the log
\* grows at most once, by one entry, in a state where no pin is moving; resolveThrow
\* called outside resolving changes nothing.
C9_ScoredOncePerThrow ==
  [][ /\ (ResolveThrow /\ phase # "resolving") => UNCHANGED storeVars
      /\ ((players' # players \/ eventLog' # eventLog) /\ ~Reset)
           => ( /\ Len(eventLog) = logAtThrow
                /\ Len(eventLog') = logAtThrow + 1
                /\ logAtThrow' = logAtThrow
                /\ phase' = "turnEnd"
                /\ ~AnyPinMoving(pins') )
    ]_vars

\* the second throw of a game has been scored
C9_Witness ==
  /\ last.op = "resolveThrow"
  /\ phase = "turnEnd"
  /\ Len(eventLog) = 2
  /\ logAtThrow = 1

RECURSIVE SumDeltaP1(_)
SumDeltaP1(log) == IF log = <<>> THEN 0 ELSE Head(log).deltaP1 + SumDeltaP1(Tail(log))

RECURSIVE SumDeltaP2(_)
SumDeltaP2(log) == IF log = <<>> THEN 0 ELSE Head(log).deltaP2 + SumDeltaP2(Tail(log))

\* C10: in every reachable state player 1's score is the sum of deltaP1 over the
\* event log and player 2's score is the sum of deltaP2 over it.
C10_ScoresMatchLog ==
  /\ players[1].score = SumDeltaP1(eventLog)
  /\ players[2].score = SumDeltaP2(eventLog)

\* both players' scores have moved, one up and one down
C10_Witness ==
  /\ players[1].score # players[2].score
  /\ players[1].score # 0
  /\ players[2].score # 0

\* the delta of player p in log entry e
DeltaOf(e, p) == IF p = 1 THEN e.deltaP1 ELSE e.deltaP2

\* resolveThrow is called in resolving and finds the thrown pin
ScoringCall ==
  ResolveThrow /\ phase = "resolving" /\ FindPin(pins, runtime.thrownPinId) # 0

\* the landing score the thrown pin at index k earns when it ends in state st
LandingScoreAt(k, st) ==
  (IF st = "standing" THEN 2 ELSE 1) * findRing(pins[k].x, pins[k].y, config).points

\* the stand roll: the next draw of the generator against the stand probability of
\* the thrown pin at index k
StandRollAt(k) ==
  Chance(rng, calculateStandProbability(config,
                                        findRing(pins[k].x, pins[k].y, config).ringIndex,
                                        runtime.collisionCount)).hit

\* C11: resolveThrow sets the thrown pin's state by the stand roll alone and logs a
\* landing score of 2 x ringPoints if it stands and 1 x ringPoints otherwise, where
\* ringPoints are the points of the ring at the pin's position (outsideScore if none);
\* with no pin knocked, the thrower's score grows by exactly that and the other
\* player's score stays.
C11_LandingScore ==
  [][ ScoringCall
      => \E k \in {FindPin(pins, runtime.thrownPinId)} :
           /\ pins'[k].state = (IF StandRollAt(k) THEN "standing" ELSE "fallen")
           /\ Len(eventLog') = Len(eventLog) + 1
           /\ eventLog'[Len(eventLog')].text[1].kind = "landed"
           /\ eventLog'[Len(eventLog')].text[1].score = LandingScoreAt(k, pins'[k].state)
           /\ runtime.knockedIds = <<>>
                => /\ players'[currentPlayerId].score
                        = players[currentPlayerId].score
                          + LandingScoreAt(k, pins'[k].state)
                   /\ players'[OtherPlayer(currentPlayerId)].score
                        = players[OtherPlayer(currentPlayerId)].score ]_vars

\* a throw that ended standing inside a ring has been scored with twice its points
C11_Witness ==
  /\ last.op = "resolveThrow"
  /\ phase = "turnEnd"
  /\ runtime.knockedIds = <<>>
  /\ FindPin(pins, runtime.thrownPinId) # 0
  /\ pins[FindPin(pins, runtime.thrownPinId)].state = "standing"
  /\ eventLog # <<>>
  /\ eventLog[Len(eventLog)].text[1].score > 0
  /\ DeltaOf(eventLog[Len(eventLog)], currentPlayerId)
       = 2 * eventLog[Len(eventLog)].text[1].points

\* the sum of mult x ringPoints over the pins of the board named in ids
RECURSIVE KnockedPoints(_, _)
KnockedPoints(ids, mult) ==
  IF ids = <<>> THEN 0
  ELSE (IF FindPin(pins, Head(ids)) = 0 THEN 0
        ELSE mult * findRing(pins[FindPin(pins, Head(ids))].x,
                             pins[FindPin(pins, Head(ids))].y, config).points)
       + KnockedPoints(Tail(ids), mult)

\* every knocked pin on the board is owned by the thrower's opponent
KnockedAreOpponents ==
  \A i \in 1..Len(runtime.knockedIds) :
     FindPin(pins, runtime.knockedIds[i]) # 0
       => pins[FindPin(pins, runtime.knockedIds[i])].playerId
            = OtherPlayer(currentPlayerId)

RECURSIVE Reverse(_)
Reverse(q) == IF q = <<>> THEN <<>> ELSE Append(Reverse(Tail(q)), Head(q))

\* C12: in resolveThrow the thrower gains, on top of the landing score, the sum over
\* the knocked pins of (4 if the thrown pin ended standing, else 2) x knockedRingPoints,
\* the knocked pins' owner loses the sum of 2 x knockedRingPoints, and processing the
\* knocked pins in the opposite order gives the same scores.
C12_KnockBonusAndLoss ==
  [][ (ScoringCall /\ KnockedAreOpponents)
      => \E k \in {FindPin(pins, runtime.thrownPinId)} :
           /\ players'[currentPlayerId].score
                = players[currentPlayerId].score
                  + LandingScoreAt(k, pins'[k].state)
                  + KnockedPoints(runtime.knockedIds,
                                  IF pins'[k].state = "standing" THEN 4 ELSE 2)
           /\ players'[OtherPlayer(currentPlayerId)].score
                = players[OtherPlayer(currentPlayerId)].score
                  - KnockedPoints(runtime.knockedIds, 2)
           /\ players'
                = resolveThrowOn([Store EXCEPT !.runtime.knockedIds = Reverse(@)],
                                 idCounter.event + 1).players ]_vars

\* a standing throw that knocked two of the opponent's pins, in rings worth 3 and 2
\* points, earned 2 x 3 for landing and 4 x (3 + 2) in bonuses; the opponent lost
\* 2 x (3 + 2)
C12_Witness ==
  /\ last.op = "resolveThrow"
  /\ phase = "turnEnd"
  /\ Len(runtime.knockedIds) = 2
  /\ KnockedAreOpponents
  /\ FindPin(pins, runtime.thrownPinId) # 0
  /\ pins[FindPin(pins, runtime.thrownPinId)].state = "standing"
  /\ players[currentPlayerId].score = 26
  /\ players[OtherPlayer(currentPlayerId)].score = -10

\* C13: a throwPin call in idle on a board that holds exactly maxPinsOnBoard >= 1 pins
\* removes the oldest pin only, keeps the others in order and unchanged, and appends
\* the new pin last; every step other than a throw in idle and reset keeps the pins
\* on the board, in their order.
C13_EvictsOldestOnly ==
  [][ /\ ( /\ ThrowPin /\ phase = "idle" /\ ~hung'
           /\ config.maxPinsOnBoard >= 1
           /\ Len(pins) = config.maxPinsOnBoard )
        => /\ Len(pins') = Len(pins)
           /\ \A i \in 1..(Len(pins) - 1) : pins'[i] = pins[i + 1]
           /\ \A i \in 1..Len(pins) : pins[i].id # pins'[Len(pins')].id
      /\ ( ~(ThrowPin /\ phase = "idle") /\ ~Reset )
        => /\ Len(pins') = Len(pins)
           /\ \A i \in 1..Len(pins) : pins'[i].id = pins[i].id
    ]_vars

\* the third pin was thrown onto a full board of capacity 2: pins 2 and 3 remain
C13_Witness ==
  /\ last = [op |-> "throwPin", ret |-> TRUE]
  /\ config.maxPinsOnBoard = 2
  /\ Len(pins) = 2
  /\ pins[1].id = 2
  /\ pins[2].id = 3

\* C14: throwPin called in idle terminates for every value of maxPinsOnBoard, the
\* capacity 0 included: no call is ever left inside the eviction loop.
C14_ThrowTerminates == ~hung

\* what a run observes of a store: the pins' positions, velocities and states, the
\* players' scores and the log entries
ObservedPin(p) ==
  [ x |-> p.x, y |-> p.y, z |-> p.z, vx |-> p.vx, vy |-> p.vy, vz |-> p.vz,
    state |-> p.state, isMoving |-> p.isMoving ]

Observed(s) ==
  [ pins |-> [i \in 1..Len(s.pins) |-> ObservedPin(s.pins[i])],
    scores |-> <<s.players[1].score, s.players[2].score>>,
    eventLog |-> s.eventLog ]

\* C15: determinism: from the same state the same command leads to the same pin
\* positions, velocities and states, the same scores and the same log entries,
\* whatever the clock and Math.random() contribute in the two runs.
C15_Deterministic ==
  \A a, b \in Stamps :
     /\ Observed(throwPinOn(Store, generatePinId(idCounter.pin + 1, a)))
          = Observed(throwPinOn(Store, generatePinId(idCounter.pin + 1, b)))
     /\ Observed(resolveThrowOn(Store, generateEventId(idCounter.event + 1, a)))
          = Observed(resolveThrowOn(Store, generateEventId(idCounter.event + 1, b)))

\* the state of a generator that started in state s, after k draws
RECURSIVE StateAfter(_, _)
StateAfter(s, k) == IF k = 0 THEN s ELSE StateAfter(Mulberry32Next(s).state, k - 1)

\* the value a generator that started in state s returns at its k-th draw (k >= 1)
ValueAt(s, k) == Mulberry32Next(StateAfter(s, k - 1)).value

\* C16: the store's generator, after any draws and resets, is where a generator
\* freshly constructed with config.seed is after as many draws as the store's has
\* served since it was constructed, and its last draw returned the value the fresh
\* one returns at that index.
C16_SameSeedSameSequence ==
  /\ rng = StateAfter(ToUint32(config.seed), last.index)
  /\ last.op \in {"next", "chance"}
       => last.value = ValueAt(ToUint32(config.seed), last.index)

\* two draws after a reset that followed earlier draws
C16_Witness ==
  /\ last.op \in {"next", "chance"}
  /\ last.index = 2
  /\ last.drawn > last.index

\* C17: every draw returns a value u / 2^32 with 0 <= u < 2^32, so chance(0) answers
\* false and chance(1) answers true.
C17_UnitInterval ==
  last.op \in {"next", "chance"}
    => /\ last.value[1] \in 0..(Two16 - 1)
       /\ last.value[2] \in 0..(Two16 - 1)
       /\ (last.op = "chance" /\ last.p = 0) => ~last.hit
       /\ (last.op = "chance" /\ last.p = Milli) => last.hit

\* chance(1) has just answered true on a generator that had drawn before
C17_Witness ==
  /\ last.op = "chance"
  /\ last.p = Milli
  /\ last.hit
  /\ last.drawn >= 2

\* the largest number of further draws compared
DrawsCompared == 3

\* C18: a generator given the state of the store's generator by
\* setState(getState()) returns the same values as the store's generator at each of
\* its next draws.
C18_StateRoundTrip ==
  \A k \in 1..DrawsCompared : ValueAt(setState(getState(rng)), k) = ValueAt(rng, k)

\* C19: in every state, every pin with isMoving = false has vx = vy = vz = 0
\* and z = 0, the pins struck by another pin and not re-marked as moving
\* included.
C19_RestingPinsAtRest ==
  \A i \in 1..Len(pins) :
    ~pins[i].isMoving =>
      /\ pins[i].vx = 0
      /\ pins[i].vy = 0
      /\ pins[i].vz = 0
      /\ pins[i].z = 0

\* the square of the distance of the looked-up position from the arena centre
LookupDistSq ==
  (last.x - config.canvasSize \div 2) * (last.x - config.canvasSize \div 2)
    + (last.y - config.canvasSize \div 2) * (last.y - config.canvasSize \div 2)

\* the rings (1-based) with innerRadius <= dist < outerRadius
MatchingRings ==
  { i \in 1..Len(config.rings) :
      /\ (config.rings[i].innerRadius <= 0
            \/ LookupDistSq >= config.rings[i].innerRadius * config.rings[i].innerRadius)
      /\ config.rings[i].outerRadius > 0
      /\ LookupDistSq < config.rings[i].outerRadius * config.rings[i].outerRadius }

FirstMatchingRing == CHOOSE i \in MatchingRings : \A j \in MatchingRings : i <= j

RawStandProbability ==
  config.baseStandProb
    + (IF config.ringBonusEnabled /\ last.ringIndex >= 0
       THEN 100 * (Len(config.rings) - last.ringIndex) ELSE 0)
    - (IF config.collisionPenaltyEnabled THEN 150 * last.collisionCount ELSE 0)

\* C21: calculateStandProbability returns the base plus the ring bonus minus the
\* collision penalty, clamped to [0, 1]; base 0.5 with the bonus on, 3 rings,
\* ring index 0 and no collision gives 0.8.
C21_StandProbability ==
  last.op = "calculateStandProbability" =>
    /\ last.value >= 0
    /\ last.value <= Milli
    /\ RawStandProbability < 0 => last.value = 0
    /\ RawStandProbability > Milli => last.value = Milli
    /\ RawStandProbability \in 0..Milli => last.value = RawStandProbability
    /\ ( /\ config.baseStandProb = 500
         /\ config.ringBonusEnabled
         /\ Len(config.rings) = 3
         /\ last.ringIndex = 0
         /\ last.collisionCount = 0 ) => last.value = 800

\* a call whose bonus and penalty both apply and whose sum leaves [0, 1]
C21_Witness ==
  /\ last.op = "calculateStandProbability"
  /\ config.ringBonusEnabled /\ last.ringIndex >= 0
  /\ config.collisionPenaltyEnabled /\ last.collisionCount >= 1
  /\ RawStandProbability > Milli
  /\ last.value = Milli

\* C22: applyCollisionResponse conserves the horizontal momentum of the pair for
\* every input: the returned velocities sum to the velocities passed in, in x and
\* in y, whether the pins approach, separate or stand on the same point.
C22_MomentumConserved ==
  last.op = "applyCollisionResponse" =>
    /\ last.response.mvx + last.response.svx = last.movingPin.vx + last.staticPin.vx
    /\ last.response.mvy + last.response.svy = last.movingPin.vy + last.staticPin.vy

\* the longest run of steps followed from a state
MaxPeriod == 2

\* the store after k further simulationStep calls
RECURSIVE StoreAfterSteps(_, _)
StoreAfterSteps(s, k) ==
  IF k = 0 THEN s ELSE StoreAfterSteps(simulationStepOn(s).store, k - 1)

\* C23: a single thrown pin, under repeated simulationStep with friction < 1 and
\* gravity > 0, reaches isMoving = false after finitely many steps.  A step is a
\* function of the store, so a store with a moving pin that further steps bring
\* back would never come to rest: no such store is reached.
C23_StopConvergence ==
  (phase = "simulating" /\ AnyPinMoving(pins) /\ Len(pins) = 1
     /\ config.friction < Milli /\ config.gravity > 0)
    => \A k \in 1..MaxPeriod : StoreAfterSteps(Store, k) # Store

\* the ids in a sequence of ids
IdsOf(q) == {q[k] : k \in 1..Len(q)}

\* the owner of the thrown pin
Thrower == OwnerAt(pins, FindPin(pins, runtime.thrownPinId))

\* the opposing pins the thrown pin touches for the first time in the step taken
NewlyJudged ==
  { i \in 1..Len(pins) : /\ pins[i].id \in runtime'.collidedWith \ runtime.collidedWith
                          /\ pins[i].playerId # Thrower }

\* C24: within one throw a knock is judged for a given other pin at most once, on
\* the thrown pin's first contact with it, and only if the opposing player owns it:
\* a step draws from the generator once per opposing pin first touched in it, a pin
\* changes state only from standing to fallen and only when so judged, and a pin of
\* the throwing player keeps its state and never enters knockedIds.
C24_KnockOncePerOpponentPin ==
  [][ SimulationStep =>
        /\ Len(pins') = Len(pins)
        /\ rng' = StateAfter(rng, Cardinality(NewlyJudged))
        /\ \A i \in 1..Len(pins) :
              /\ pins'[i].id = pins[i].id
              /\ pins'[i].state # pins[i].state =>
                    /\ pins[i].state = "standing" /\ pins'[i].state = "fallen"
                    /\ i \in NewlyJudged
              /\ pins[i].id \in IdsOf(runtime'.knockedIds) \ IdsOf(runtime.knockedIds) =>
                    /\ pins'[i].state # pins[i].state
                    /\ i \in NewlyJudged
              /\ pins[i].playerId = Thrower =>
                    /\ pins'[i].state = pins[i].state
                    /\ pins[i].id \notin IdsOf(runtime'.knockedIds)
        /\ IdsOf(runtime.knockedIds) \subseteq IdsOf(runtime'.knockedIds)
        /\ runtime.collidedWith \subseteq runtime'.collidedWith ]_vars

\* the thrown pin has touched a pin of its own player and knocked one of the
\* opponent's
C24_Witness ==
  /\ phase = "simulating"
  /\ Len(runtime.knockedIds) >= 1
  /\ \E i \in 1..Len(pins) : /\ pins[i].id \in runtime.collidedWith
                              /\ pins[i].playerId = Thrower
                              /\ pins[i].id # runtime.thrownPinId

\* The collisions a simulationStep detects are counted by walking its two loops
\* again; watched is the set of the unordered pairs of ids to count.

\* the watched collisions detected in the inner loop of pin i
RECURSIVE DetectionsOfPin(_, _, _, _, _, _, _)
DetectionsOfPin(st, i, j, cfg, thrownId, thrownOwner, watched) ==
  IF j > Len(st.pins) THEN 0
  ELSE IF i = j THEN DetectionsOfPin(st, i, j + 1, cfg, thrownId, thrownOwner, watched)
  ELSE IF checkCollision(st.pins[i], st.pins[j], cfg.pinRadius, cfg.pinHeight,
                         cfg.collisionZThreshold)
  THEN (IF {st.pins[i].id, st.pins[j].id} \in watched THEN 1 ELSE 0)
         + DetectionsOfPin(Collide(st, i, j, cfg, thrownId, thrownOwner), i, j + 1, cfg,
                           thrownId, thrownOwner, watched)
  ELSE DetectionsOfPin(st, i, j + 1, cfg, thrownId, thrownOwner, watched)

\* the watched collisions detected in one pass over the pins
RECURSIVE DetectionsFrom(_, _, _, _, _, _)
DetectionsFrom(st, i, cfg, thrownId, thrownOwner, watched) ==
  IF i > Len(st.pins) THEN 0
  ELSE IF ~st.pins[i].isMoving
  THEN DetectionsFrom(st, i + 1, cfg, thrownId, thrownOwner, watched)
  ELSE DetectionsOfPin([st EXCEPT !.pins[i] = ApplyForces(@, cfg)], i, 1, cfg, thrownId,
                       thrownOwner, watched)
         + DetectionsFrom(StepPin(st, i, cfg, thrownId, thrownOwner), i + 1, cfg, thrownId,
                          thrownOwner, watched)

\* the watched collisions that a simulationStep on the store detects
Detections(watched) ==
  IF phase = "simulating" /\ AnyPinMoving(pins)
  THEN DetectionsFrom([pins |-> pins, runtime |-> runtime, rng |-> rng], 1, config,
                      runtime.thrownPinId, Thrower, watched)
  ELSE 0

\* the collisions holding the thrown pin that a simulationStep on the store detects
DetectionsWithThrown ==
  Detections({ {runtime.thrownPinId, pins[i].id} : i \in 1..Len(pins) })

\* C25: in every simulationStep, runtime.collisionCount grows by exactly the number
\* of collisions detected in that step in which the thrown pin is one of the two
\* pins, whichever of the two is the moving one; collisions between two other pins
\* never change it.
C25_CollisionCount ==
  [][ SimulationStep =>
        runtime'.collisionCount = runtime.collisionCount + DetectionsWithThrown ]_vars

\* C26: the phase changes only from idle to simulating by throwPin, from simulating
\* to resolving by simulationStep, from resolving to turnEnd by resolveThrow, from
\* turnEnd to idle by nextTurn and from any phase to idle by reset; every other
\* operation and phase leaves it unchanged.  (The animation callback, which calls
\* simulationStep and then resolveThrow, takes the two middle edges together.)
C26_PhaseEdges ==
  [][ phase' # phase =>
        \/ last'.op = "throwPin" /\ phase = "idle" /\ phase' = "simulating"
        \/ last'.op = "simulationStep" /\ phase = "simulating" /\ phase' = "resolving"
        \/ last'.op = "resolveThrow" /\ phase = "resolving" /\ phase' = "turnEnd"
        \/ last'.op = "nextTurn" /\ phase = "turnEnd" /\ phase' = "idle"
        \/ last'.op = "reset" /\ phase' = "idle"
        \/ last'.op = "animate" /\ phase = "simulating" /\ phase' = "turnEnd" ]_vars

\* a second throw is in flight: the phase has gone once round all four edges
C26_Witness ==
  /\ phase = "simulating"
  /\ last.op = "throwPin"
  /\ Len(eventLog) >= 1
  /\ Len(pins) >= 2

\* C27: the ThrowRuntime is discarded at the end of resolution: once resolveThrow
\* has completed (phase turnEnd), runtime.thrownPinId is null, collisionCount is 0
\* and collidedWith, knockedIds and impactSpeeds are empty.
C27_RuntimeDiscarded ==
  phase = "turnEnd" =>
    /\ runtime.thrownPinId = NoPin
    /\ runtime.collisionCount = 0
    /\ runtime.collidedWith = {}
    /\ runtime.knockedIds = <<>>
    /\ runtime.impactSpeeds = <<>>

\* the store as reset leaves it
Cleared ==
  /\ phase = "idle"
  /\ pins = <<>>
  /\ eventLog = <<>>
  /\ \A i \in 1..Len(players) : players[i].score = 0
  /\ runtime = createInitialRuntime

\* C28: reset during simulating abandons the throw: afterwards the store is cleared
\* and runtime.thrownPinId is null, and a simulationStep or resolveThrow call of the
\* abandoned throw's animation callback that runs on the cleared store returns
\* false and changes nothing.
C28_ResetAbandonsThrow ==
  [][ /\ (phase = "simulating" /\ last'.op = "reset") =>
            (Cleared' /\ runtime'.thrownPinId = NoPin)
      /\ (Cleared /\ last'.op \in {"simulationStep", "resolveThrow", "animate"}) =>
            (UNCHANGED storeVars /\ last'.ret = FALSE) ]_vars

\* a throw was abandoned by reset before it was scored, and both calls of its
\* callback have since run on the cleared store
C28_Witness ==
  /\ Cleared
  /\ idCounter.pin >= 1
  /\ idCounter.event = 0
  /\ last.op = "resolveThrow"

\* C29: within one simulationStep, collision detection and response is applied at
\* most once to each unordered pair of pins, pairs of two moving pins included.
C29_PairHandledOnce ==
  [][ last'.op = "simulationStep" =>
        \A i, j \in 1..Len(pins) :
          i < j => Detections({ {pins[i].id, pins[j].id} }) <= 1 ]_vars

\* C30: in a simulationStep, a pin sliding on the ground (z = 0 and vz = 0 at the
\* start of the step) has its horizontal velocity multiplied by config.friction and
\* a pin in flight has it multiplied by 0.995, for every gravity value the
\* configuration allows, the default 0.5 included.
C30_FrictionByGrounding ==
  last.op = "applyForces" =>
    /\ (last.pin.z = 0 /\ last.pin.vz = 0) =>
          /\ last.result.vx = MulMilli(last.pin.vx, config.friction)
          /\ last.result.vy = MulMilli(last.pin.vy, config.friction)
    /\ last.pin.z > Scale \div 10 =>
          /\ last.result.vx = MulMilli(last.pin.vx, 995)
          /\ last.result.vy = MulMilli(last.pin.vy, 995)

\* C31: in every state the keys of runtime.impactSpeeds are the ids in
\* runtime.knockedIds, knockedIds is a subset of collidedWith, and every pin in
\* knockedIds is on the board, belongs to the player opposing the thrown pin's
\* owner, and is fallen.
C31_KnockRecorded ==
  /\ DOMAIN runtime.impactSpeeds = IdsOf(runtime.knockedIds)
  /\ IdsOf(runtime.knockedIds) \subseteq runtime.collidedWith
  /\ \A id \in IdsOf(runtime.knockedIds) :
        /\ FindPin(pins, id) # 0
        /\ Thrower # NoPlayer
        /\ pins[FindPin(pins, id)].playerId = OtherPlayer(Thrower)
        /\ pins[FindPin(pins, id)].state = "fallen"

\* a throw has knocked a pin and has been scored
C31_Witness ==
  /\ phase = "turnEnd"
  /\ Len(runtime.knockedIds) >= 1

\* the indices of the pins that are moving
MovingPins == { k \in 1..Len(pins) : pins[k].isMoving }

\* C32: a struck pin is marked moving exactly when its horizontal speed after the
\* collision response exceeds config.stopThreshold; every pin so marked is taken
\* through the following steps like the thrown pin, and the phase does not leave
\* simulating while any pin is moving.  (The mark is read off the store for the
\* pins that precede the only moving pin of the step: their own pass is over when
\* they are struck, and they are struck only by that pin.)
C32_ChainReaction ==
  [][ (phase = "simulating" /\ last'.op \in {"simulationStep", "animate"}) =>
        /\ \A i \in MovingPins :
              /\ MovingPins = {i} =>
                    \A j \in 1..(i - 1) :
                      pins'[j].isMoving <=>
                        DistGreater(SpeedSq(pins'[j].vx, pins'[j].vy), config.stopThreshold)
              /\ pins'[i] # pins[i]
        /\ phase' # "simulating" => (MovingPins = {} /\ ~AnyPinMoving(pins')) ]_vars

\* a pin other than the thrown one is moving
C32_Witness ==
  /\ phase = "simulating"
  /\ \E i \in MovingPins : pins[i].id # runtime.thrownPinId

C34_LogAppendOnly ==
  [][ last'.op # "reset" =>
        /\ Len(eventLog') >= Len(eventLog)
        /\ SubSeq(eventLog', 1, Len(eventLog)) = eventLog
        /\ Len(eventLog') <= Len(eventLog) + 1
        /\ eventLog' # eventLog => last'.op \in {"resolveThrow", "animate"}
        /\ (\/ last'.op = "resolveThrow" /\ phase = "resolving"
            \/ last'.op = "animate" /\ MovingPins = {})
             => Len(eventLog') = Len(eventLog) + 1 ]_vars

\* a second entry has just been appended behind the first
C34_Witness ==
  /\ last.op \in {"resolveThrow", "animate"}
  /\ phase = "turnEnd"
  /\ Len(eventLog) >= 2


\* the squared distance of a pin from the centre of the canvas
CentreDistSq(pin, cfg) ==
  DistSq(pin.x, pin.y, cfg.canvasSize \div 2, cfg.canvasSize \div 2)

\* the pins a step integrates for certain: those moving when it starts and those it moved
Integrated == MovingPins \cup { k \in 1..Len(pins) : pins'[k].x # pins[k].x \/ pins'[k].y # pins[k].y }

\* a position clamped by the reflection lies on the boundary circle, up to the
\* truncation of the two coordinates
OnBoundary(pin, cfg) ==
  /\ ~DistGreater(CentreDistSq(pin, cfg), BoundaryRadius(cfg))
  /\ DistGreater(CentreDistSq(pin, cfg), BoundaryRadius(cfg) - 3)

OutwardComponent(pin, cfg) ==
  pin.vx * (pin.x - cfg.canvasSize \div 2) + pin.vy * (pin.y - cfg.canvasSize \div 2)

\* C36: the boundary reflection never sends a pin outward: whenever a step
\* applies applyBoundaryReflection to a pin (here the sole pin on the board,
\* whose position before the reflection is the one its move produced), the
\* resulting velocity has a non-positive component along the outward normal.
C36_ReflectionPointsInward ==
  [][ ( /\ last'.op \in {"simulationStep", "animate"}
        /\ phase = "simulating"
        /\ Len(pins) = 1
        /\ pins[1].isMoving
        /\ isOutOfBounds(MoveAndBounce(ApplyForces(pins[1], config), config), config) )
      => OutwardComponent(pins'[1], config) <= 0 ]_vars


\* C37: in phase idle, resolving or turnEnd no pin has isMoving = true; pins
\* move only while the phase is simulating.
C37_MovingOnlyWhileSimulating ==
  phase \in {"idle", "resolving", "turnEnd"} => MovingPins = {}

\* a throw that struck a pin has come to rest and the phase has left simulating
C37_Witness ==
  /\ phase = "resolving"
  /\ Len(pins) >= 2
  /\ runtime.collisionCount >= 1


\* C38: while the phase is simulating, resolving or turnEnd, runtime.thrownPinId
\* is the id of a pin on the board, that pin is the last one in insertion
\* order and it belongs to currentPlayerId; in phase idle thrownPinId is null.
C38_ThrownPinTracked ==
  /\ phase \in {"simulating", "resolving", "turnEnd"} =>
        /\ Len(pins) >= 1
        /\ runtime.thrownPinId # NoPin
        /\ pins[Len(pins)].id = runtime.thrownPinId
        /\ pins[Len(pins)].playerId = currentPlayerId
        /\ \A k \in 1..(Len(pins) - 1) : pins[k].id # runtime.thrownPinId
  /\ phase = "idle" => runtime.thrownPinId = NoPin

\* the first player's second throw, onto a full board, has evicted the oldest
\* pin and has been scored
C38_Witness ==
  /\ phase = "turnEnd"
  /\ currentPlayerId = 1
  /\ config.maxPinsOnBoard = 2
  /\ Len(pins) = 2
  /\ pins[1].playerId = 2
  /\ pins[2].id = runtime.thrownPinId


\* the ids recorded in a sequence of ids
IdsIn(q) == { q[k] : k \in 1..Len(q) }

\* C39: falling is permanent: a pin whose state is fallen is fallen in every
\* later state in which it is still on the board (eviction and reset remove
\* it), and a pin that is already fallen is never knocked again.
C39_FallenStaysFallen ==
  [][ \A k \in 1..Len(pins) :
        pins[k].state = "fallen" =>
          /\ \A j \in 1..Len(pins') :
                pins'[j].id = pins[k].id => pins'[j].state = "fallen"
          /\ pins[k].id \in IdsIn(runtime'.knockedIds)
                => pins[k].id \in IdsIn(runtime.knockedIds) ]_vars

\* a pin that had fallen in an earlier turn has been struck by the opponent's
\* thrown pin and judged, and is still fallen
C39_Witness ==
  /\ phase \in {"simulating", "resolving", "turnEnd"}
  /\ \E k \in 1..Len(pins) :
        /\ pins[k].state = "fallen"
        /\ pins[k].playerId # currentPlayerId
        /\ pins[k].id \in runtime.collidedWith
        /\ pins[k].id \notin IdsIn(runtime.knockedIds)


\* C40: the generator's internal state stays an unsigned 32-bit integer: for
\* every seed and after any number of draws getState() returns an integer in
\* [0, 2^32).
C40_StateIsUint32 ==
  /\ getState(rng).top = 0
  /\ getState(rng).hi \in 0..(Two16 - 1)
  /\ getState(rng).lo \in 0..(Two16 - 1)

====
